---------------------------- MODULE Spec2Model ----------------------------
(***************************************************************************)
(* A model of the OpenGL backend of ignis: the render surface              *)
(* (Framebuffer::onResize), the PrimitiveBuffer reference protocol and the *)
(* per-thread GLContext cache driven by Graphics::execute / present /      *)
(* onAddOrErase and glxBindDescriptors.                                    *)
(*                                                                         *)
(* The parts share no state but the process-wide `fatal' flag (and the     *)
(* contexts, for the two Graphics parts), so each has a specification of   *)
(* its own: SpecFb, SpecPB, Spec (object lifecycle, execute, present) and  *)
(* SpecDesc (descriptor binding). Each pins the variables of the others.   *)
(* oic::System::log()->fatal terminates the process: once `fatal' is set   *)
(* no operation is enabled any more.                                       *)
(***************************************************************************)
EXTENDS Integers, Sequences, FiniteSets, TLC

VARIABLES
    fatal,      \* the process raised a fatal error (log()->fatal) and ended
    \* ---- Framebuffer (gl_framebuffer.cpp)
    fbInfo,     \* Surface::Info of the framebuffer
    fbData,     \* Framebuffer::Data: index, depth, renderTextures
    fbAlive,    \* FALSE once ~Framebuffer ran
    glNames,    \* the driver's live object names: fbos, texs, rbos
    fbLast,     \* the last Framebuffer operation and its argument
    \* ---- PrimitiveBuffer (primitive_buffer.cpp) and its GPUBuffers
    bufs,       \* the GPUBuffers ever created, by id: type, size, refCount, freed
    appRef,     \* the external buffers the application holds a reference on
    pbs,        \* the PrimitiveBuffers: state, vertexLayout, indexBuffer
    pbLast,     \* the last PrimitiveBuffer operation and its input
    \* ---- Graphics::Data and the per-thread GLContext (gl_graphics.cpp)
    contexts,   \* Graphics::Data::contexts: thread id -> GLContext
    objState,   \* each graphics object: "none", "alive" or "destroyed"
    primitiveBuffers, \* Graphics::Data::primitiveBuffers (the registry)
    submits,    \* how many execute/present calls were made
    glLog,      \* what the last operation did, in the order it did it
    firstCmdCtx,\* the calling context as the first command of the last
                \* execute found it
    ctxLast,    \* the last Graphics operation and its arguments
    \* ---- descriptor binding (glxBindDescriptors)
    resources,  \* the GPUBuffers, Samplers and Textures a Descriptors can
                \* name: state, native handle, texture views
    glCalls,    \* the slots the last glxBindDescriptors visited, in order,
                \* with the native bind each one issued or skipped
    \* ---- values built by a constructor or a factory (commands,
    \* Pipeline::Info)
    ctorIn,     \* which constructor was called last, with which arguments
    ctorOut,    \* the value it built
    \* ---- the state caches of one context and the driver behind them
    \* (glxBindPipeline, glxSetViewport, glxSetScissor, Graphics::Data::bind)
    glx,        \* the cached state: what the context believes the driver has
    driver,     \* the native state, as the native calls issued so far set it
    glxLast     \* the last state-setting operation, its arguments and the
                \* native calls it issued, in order

fbVars == <<fbInfo, fbData, fbAlive, glNames, fbLast>>

pbVars == <<bufs, appRef, pbs, pbLast>>

ctxVars == <<contexts, objState, primitiveBuffers, submits, glLog,
             firstCmdCtx, ctxLast>>

descVars == <<resources, glCalls>>

ctorVars == <<ctorIn, ctorOut>>

glxVars == <<glx, driver, glxLast>>

vars == <<fatal, fbVars, pbVars, ctxVars, descVars, ctorVars, glxVars>>

\* What the operations of one part leave alone.
otherThanFb == <<pbVars, ctxVars, descVars, ctorVars, glxVars>>
otherThanPb == <<fbVars, ctxVars, descVars, ctorVars, glxVars>>
otherThanCtx == <<fbVars, pbVars, descVars, ctorVars, glxVars>>
otherThanDesc == <<fbVars, pbVars, objState, primitiveBuffers, glLog,
                   firstCmdCtx, ctorVars, glxVars>>
otherThanCtor == <<fbVars, pbVars, ctxVars, descVars, glxVars>>
otherThanGlx == <<fbVars, pbVars, ctxVars, descVars, ctorVars>>

(***************************************************************************)
(* Framebuffer                                                             *)
(***************************************************************************)

\* glGen*: the driver hands out a name that is not in use; as the common
\* drivers do, the lowest one (so a deleted name is the next one reused).
glGen(used) ==
    CHOOSE n \in 1..(Cardinality(used) + 1) :
        n \notin used /\ \A m \in 1..(n - 1) : m \in used

\* n successive glGen calls: the names, in order.
RECURSIVE glGenSeq(_, _)
glGenSeq(used, n) ==
    IF n = 0 THEN <<>>
    ELSE LET h == glGen(used) IN <<h>> \o glGenSeq(used \cup {h}, n - 1)

\* Backbuffer sizes passed to onResize.
BackbufferSizes == {<<0, 0>>, <<800, 600>>, <<5, 3>>, <<0, 4>>, <<4, 0>>}

\* viewportScale values as exact fractions <<numerator, denominator>>; all are
\* dyadic, so the f64 product with a small integer is exact.
Scales == {<<1, 2>>, <<1, 1>>, <<3, 2>>, <<1, 4>>}

StaticSizes == {<<4, 4>>, <<800, 600>>}

\* Surface::Info(size, colorFormats, depthFormat, keepDepth, samples):
\* a static surface, isDynamic keeps its default (false), viewportScale = 1.
StaticInfo(size, nColors, hasDepth, keepDepth) ==
    [size |-> size, nColors |-> nColors, hasDepth |-> hasDepth,
     keepDepth |-> keepDepth, isDynamic |-> FALSE, viewportScale |-> <<1, 1>>]

\* Surface::Info(colorFormats, depthFormat, keepDepth, samples, viewportScale):
\* a dynamic surface, its size is not given (Vec2u32 default: 0, 0).
DynamicInfo(nColors, hasDepth, keepDepth, scale) ==
    [size |-> <<0, 0>>, nColors |-> nColors, hasDepth |-> hasDepth,
     keepDepth |-> keepDepth, isDynamic |-> TRUE, viewportScale |-> scale]

\* Framebuffer::Framebuffer: data = new Data(), all handles zero.
NewFramebufferData == [index |-> 0, depth |-> 0, renderTextures |-> <<>>]

\* A plausible slip: the scale is not applied.
viewportSizeUnscaled(siz, scale) == siz

\* u32(siz[i] * info.viewportScale): the product truncated toward zero.
viewportSize(siz, scale) ==
    <<(siz[1] * scale[1]) \div scale[2], (siz[2] * scale[1]) \div scale[2]>>

\* A plausible slip: the static check is dropped.
onResizeSkipsSizeOnly(info, size) == info.size = size

\* A plausible slip: the size is not compared.
onResizeSkipsStaticOnly(info, size) == ~info.isDynamic

\* The early return of onResize: nothing to do.
onResizeSkips(info, size) == info.size = size \/ ~info.isDynamic

RECURSIVE SeqToSet(_)
SeqToSet(s) == IF s = <<>> THEN {} ELSE {Head(s)} \cup SeqToSet(Tail(s))

\* The deletes of onResize: the framebuffer, the depth attachment (a texture
\* when keepDepth, else a renderbuffer) and every non-zero render texture.
\* glDelete* silently ignores names that are not live.
glAfterDeletes(gl, info, data) ==
    [fbos |-> IF data.index # 0 THEN gl.fbos \ {data.index} ELSE gl.fbos,
     texs |-> (gl.texs \ (SeqToSet(data.renderTextures) \ {0}))
                \ (IF data.depth # 0 /\ info.keepDepth THEN {data.depth} ELSE {}),
     rbos |-> IF data.depth # 0 /\ ~info.keepDepth
              THEN gl.rbos \ {data.depth} ELSE gl.rbos]

\* The glDelete* calls of onResize: one per handle that is not zero.
deleteCalls(data) ==
    (IF data.index # 0 THEN 1 ELSE 0) + (IF data.depth # 0 THEN 1 ELSE 0)
      + Cardinality({i \in 1..Len(data.renderTextures) :
                       data.renderTextures[i] # 0})

\* A plausible slip: one render texture whatever the formats.
colorAttachmentsOne(info) == 1

\* data->renderTextures.resize(info.colorFormats.size())
colorAttachments(info) == info.nColors

\* What an operation on the framebuffer was and did: its argument, the
\* glDelete* calls on live handles and the glGen* calls it made.
FbLast(op, arg, released, allocated) ==
    [op |-> op, arg |-> arg, released |-> released, allocated |-> allocated]

\* Framebuffer::onResize(siz), the whole method, called as `op'. The result
\* of glCheckFramebufferStatus is the driver's; an attachment of zero height
\* is never complete.
onResize(siz, op) ==
    LET size == viewportSize(siz, fbInfo.viewportScale) IN
    IF onResizeSkips(fbInfo, size)
    THEN /\ fbLast' = FbLast(op, siz, 0, 0)
         /\ UNCHANGED <<fbInfo, fbData, glNames, fatal>>
    ELSE
      LET gl1 == glAfterDeletes(glNames, fbInfo, fbData) IN
      /\ fbInfo' = [fbInfo EXCEPT !.size = size]
      /\ IF size[1] = 0
         THEN /\ fbData' = [fbData EXCEPT !.index = 0, !.depth = 0]
              /\ glNames' = gl1
              /\ fbLast' = FbLast(op, siz, deleteCalls(fbData), 0)
              /\ UNCHANGED fatal
         ELSE \E complete \in BOOLEAN :
                LET depthTex == fbInfo.hasDepth /\ fbInfo.keepDepth
                    depthRbo == fbInfo.hasDepth /\ ~fbInfo.keepDepth
                    index == glGen(gl1.fbos)
                    depth == IF depthTex THEN glGen(gl1.texs)
                             ELSE IF depthRbo THEN glGen(gl1.rbos)
                             ELSE fbData.depth
                    texs1 == gl1.texs \cup (IF depthTex THEN {depth} ELSE {})
                    rt == glGenSeq(texs1, colorAttachments(fbInfo))
                IN
                  /\ fbLast' = FbLast(op, siz, deleteCalls(fbData),
                                      1 + (IF fbInfo.hasDepth THEN 1 ELSE 0)
                                        + Len(rt))
                  /\ complete => size[2] # 0
                  /\ fbData' = [index |-> index, depth |-> depth,
                                renderTextures |-> rt]
                  /\ glNames' =
                       [fbos |-> gl1.fbos \cup {index},
                        texs |-> texs1 \cup SeqToSet(rt),
                        rbos |-> gl1.rbos
                                   \cup (IF depthRbo THEN {depth} ELSE {})]
                  /\ fatal' = ~complete

\* The application (or the window) calls fb->onResize(siz).
FbOnResize(siz) ==
    /\ ~fatal /\ fbAlive
    /\ onResize(siz, "onResize")
    /\ UNCHANGED <<fbAlive, otherThanFb>>

\* Framebuffer::~Framebuffer: onResize(Vec2u()), then destroy(data).
FbDestroy ==
    /\ ~fatal /\ fbAlive
    /\ onResize(<<0, 0>>, "destroy")
    /\ fbAlive' = FALSE
    /\ UNCHANGED otherThanFb

\* The framebuffer before any operation (the other parts pin it there).
FbIdle ==
    /\ fbInfo = DynamicInfo(1, FALSE, FALSE, <<1, 1>>)
    /\ fbData = NewFramebufferData
    /\ fbAlive = TRUE
    /\ glNames = [fbos |-> {}, texs |-> {}, rbos |-> {}]
    /\ fbLast = FbLast("new", <<0, 0>>, 0, 0)

\* No constructor was called (the other parts pin them there).
NoCtor == [kind |-> "none"]

CtorIdle == ctorIn = NoCtor /\ ctorOut = NoCtor

\* No state-setting operation ran (the other parts pin them there).
NoGlx == [op |-> "none"]

GlxIdle == glx = NoGlx /\ driver = NoGlx /\ glxLast = NoGlx

\* No PrimitiveBuffer and no GPUBuffer (the other parts pin them there).
PbIdle ==
    /\ bufs = <<>>
    /\ appRef = {}
    /\ pbs = <<>>
    /\ pbLast = [op |-> "none", pb |-> 0]

\* No object bound, no surface given.
Null == "null"

\* The record of an operation that was no submission.
LastOp(op, thread, obj) ==
    [op |-> op, thread |-> thread, obj |-> obj, intermediate |-> Null,
     swapchain |-> Null, drained |-> 0, submitted |-> 0]

\* No context, no graphics object, nothing submitted (the other parts pin
\* them there).
CtxIdle ==
    /\ contexts = <<>>
    /\ objState = <<>>
    /\ primitiveBuffers = {}
    /\ submits = 0
    /\ glLog = <<>>
    /\ firstCmdCtx = "none"
    /\ ctxLast = LastOp("none", 0, Null)
    /\ resources = <<>>
    /\ glCalls = <<>>

InitFb ==
    /\ fatal = FALSE
    /\ PbIdle
    /\ CtxIdle
    /\ CtorIdle
    /\ GlxIdle
    /\ fbInfo \in
         {StaticInfo(s, n, d, k) :
            s \in StaticSizes, n \in {1, 2}, d \in BOOLEAN, k \in BOOLEAN}
         \cup
         {DynamicInfo(n, d, k, sc) :
            n \in {1, 2}, d \in BOOLEAN, k \in BOOLEAN, sc \in Scales}
    /\ fbData = NewFramebufferData
    /\ fbAlive = TRUE
    /\ glNames = [fbos |-> {}, texs |-> {}, rbos |-> {}]
    /\ fbLast = FbLast("new", <<0, 0>>, 0, 0)

NextFb ==
    \/ \E siz \in BackbufferSizes : FbOnResize(siz)
    \/ FbDestroy

SpecFb == InitFb /\ [][NextFb]_vars

C10_DynamicSizeIsFloor ==
    (fbLast.op = "onResize" /\ fbInfo.isDynamic) =>
       LET num == fbInfo.viewportScale[1]
           den == fbInfo.viewportScale[2]
       IN /\ \A i \in 1..2 :
               /\ fbInfo.size[i] * den <= fbLast.arg[i] * num
               /\ fbLast.arg[i] * num < (fbInfo.size[i] + 1) * den
          /\ (2 * num = den /\ fbLast.arg = <<800, 600>>)
                => fbInfo.size = <<400, 300>>

\* The example of the claim happened, and so did a product that is no integer.
C10_Witness ==
    /\ fbLast.op = "onResize" /\ fbInfo.isDynamic
    /\ fbInfo.viewportScale = <<1, 2>> /\ fbLast.arg = <<800, 600>>
    /\ fbInfo.size = <<400, 300>>

\* The handles a Framebuffer::Data holds.
HeldColors(data) ==
    {i \in 1..Len(data.renderTextures) : data.renderTextures[i] # 0}

(***************************************************************************)
(* C11: onResize on a dynamic surface whose computed size is its current   *)
(* size does nothing: no handle is released or allocated, size and handles *)
(* stay as they are.                                                       *)
(***************************************************************************)
C11_SameSizeIsNoOp ==
    [][ ( /\ fbLast'.op = "onResize" /\ fbInfo.isDynamic
          /\ viewportSize(fbLast'.arg, fbInfo.viewportScale) = fbInfo.size )
        => /\ fbInfo' = fbInfo /\ fbData' = fbData /\ glNames' = glNames
           /\ fbLast'.released = 0 /\ fbLast'.allocated = 0
      ]_vars

\* A surface that holds attachments was resized to the size it has.
C11_Witness ==
    /\ fbLast.op = "onResize" /\ fbInfo.isDynamic /\ ~fatal
    /\ viewportSize(fbLast.arg, fbInfo.viewportScale) = fbInfo.size
    /\ fbData.index # 0 /\ fbInfo.size = <<2, 1>>
    /\ fbLast.released = 0 /\ fbLast.allocated = 0

(***************************************************************************)
(* C12: after onResize computed the size zero for a dynamic surface, the   *)
(* surface is suspended: nothing was allocated and it holds no             *)
(* framebuffer, depth or color attachment handle.                          *)
(***************************************************************************)
C12_ZeroSizeSuspends ==
    (fbLast.op = "onResize" /\ fbInfo.isDynamic /\ fbInfo.size = <<0, 0>>)
      => /\ fbLast.allocated = 0
         /\ fbData.index = 0 /\ fbData.depth = 0
         /\ HeldColors(fbData) = {}

(***************************************************************************)
(* C13: when onResize on a dynamic surface computes a size that is not     *)
(* zero and not the current one, the surface afterwards holds a            *)
(* framebuffer handle, one color attachment per declared color format, and *)
(* a depth attachment exactly when a depth format is declared.             *)
(***************************************************************************)
C13_ResizeAllocates ==
    [][ ( /\ fbLast'.op = "onResize" /\ fbInfo.isDynamic /\ ~fatal'
          /\ fbInfo'.size # fbInfo.size
          /\ fbInfo'.size[1] # 0 /\ fbInfo'.size[2] # 0 )
        => /\ fbData'.index # 0 /\ fbData'.index \in glNames'.fbos
           /\ Len(fbData'.renderTextures) = fbInfo.nColors
           /\ HeldColors(fbData') = 1..fbInfo.nColors
           /\ \A i, j \in 1..fbInfo.nColors :
                /\ fbData'.renderTextures[i] \in glNames'.texs
                /\ i # j => fbData'.renderTextures[i]
                              # fbData'.renderTextures[j]
           /\ fbData'.depth # 0 <=> fbInfo.hasDepth
           /\ fbLast'.allocated
                = 1 + fbInfo.nColors + (IF fbInfo.hasDepth THEN 1 ELSE 0)
      ]_vars

\* A surface with two color formats and a depth format was resized from
\* one size to another.
C13_Witness ==
    /\ fbLast.op = "onResize" /\ fbInfo.isDynamic /\ ~fatal
    /\ fbInfo.nColors = 2 /\ fbInfo.hasDepth
    /\ fbInfo.size = <<5, 3>>
    /\ fbLast.released = 4 /\ fbLast.allocated = 4
    /\ Len(fbData.renderTextures) = 2

(***************************************************************************)
(* C14: a static surface is initialised by the onResize call that follows  *)
(* its construction: after it a static Framebuffer of non-zero size holds  *)
(* a framebuffer handle and one color attachment per declared format.      *)
(***************************************************************************)
C14_StaticInitialisedByResize ==
    ( /\ fbLast.op = "onResize" /\ ~fbInfo.isDynamic
      /\ fbInfo.size[1] # 0 /\ fbInfo.size[2] # 0 )
      => /\ fbData.index # 0
         /\ HeldColors(fbData) = 1..fbInfo.nColors

\* The handles the deletes of onResize pass to the driver are live names of
\* their kind: none of them was deleted before.
DeletesLiveOnly(gl, info, data) ==
    /\ data.index # 0 => data.index \in gl.fbos
    /\ data.depth # 0 =>
         data.depth \in (IF info.keepDepth THEN gl.texs ELSE gl.rbos)
    /\ \A i \in HeldColors(data) : data.renderTextures[i] \in gl.texs

(***************************************************************************)
(* C34: across any sequence of onResize calls on a dynamic Framebuffer and *)
(* its destruction every allocated native handle is deleted exactly once:  *)
(* whenever onResize or the destructor passes a handle to a glDelete*      *)
(* call, that handle is still live, it was not released before (by a       *)
(* resize to zero, say).                                                   *)
(***************************************************************************)
C34_DeletedExactlyOnce ==
    [][ (fbInfo.isDynamic /\ fbLast'.released > 0)
          => DeletesLiveOnly(glNames, fbInfo, fbData) ]_vars

(***************************************************************************)
(* PrimitiveBuffer and the references it holds on GPUBuffers               *)
(***************************************************************************)

\* GraphicsObject's intrusive count (graphics_object.hpp is not part of the
\* sources; section 4.2/4.3 of the specification): a new object holds no
\* reference, addRef adds one, loseRef removes one and destroys the object
\* exactly when the count reaches zero; releasing a reference that is not
\* held is a fatal contract violation.
NewObjectRefCount == 0

NewGPUBuffer(type, size) ==
    [size |-> size, type |-> type, refCount |-> NewObjectRefCount,
     freed |-> FALSE]

addRef(bs, b) == [bs EXCEPT ![b].refCount = @ + 1]

loseRefIsFatal(bs, b) == bs[b].freed \/ bs[b].refCount <= 0

loseRef(bs, b) ==
    [bs EXCEPT ![b] = [@ EXCEPT !.refCount = @ - 1,
                                !.freed = (bs[b].refCount - 1 = 0)]]

\* BufferLayout::BufferLayout(GPUBuffer*, formats, offset):
\* elements(u32(b->size() / formats.getStride())).
layoutElements(bufferSize, stride) == bufferSize \div stride

\* BufferLayout::size(): the bytes the layout covers (buffer_layout.hpp is not
\* part of the sources).
layoutSize(elements, stride) == elements * stride

\* A plausible slip: the reference is not taken.
vertexAddRefMissing(bs, b) == bs

\* it.buffer->addRef() at the end of each vertex layout's turn.
vertexAddRef(bs, b) == addRef(bs, b)

\* The baseline test dropped for allocated layouts.
autoMismatchNever(elements, elems) == FALSE

\* An allocated layout: if (!elements) elements = it.elements;
\* else if (elements != it.elements) fatal.
autoMismatch(elements, elems) == elements # 0 /\ elements # elems

\* !elements mistyped as elements.
suppliedMismatchNonZero(base, elems) == base # elems \/ base # 0

\* A supplied layout, base being the baseline after
\* if (!elements) elements = it.elements:
\* if (elements != it.elements || !elements) fatal.
suppliedMismatch(base, elems) == base # elems \/ base = 0

\* The vertex layouts of PrimitiveBuffer::PrimitiveBuffer, in order. `todo'
\* are the layouts as given (buffer = 0: none supplied, allocate one from
\* dataSize bytes of initData), `done' the resolved ones, `elements' the
\* baseline so far. The result tells whether a fatal error ended it.
RECURSIVE ctorVertexLayouts(_, _, _, _)
ctorVertexLayouts(todo, done, elements, bs) ==
    IF todo = <<>>
    THEN [fatal |-> FALSE, bufs |-> bs, elements |-> elements,
          vertexLayout |-> done]
    ELSE
      LET it == Head(todo)
          supplied == it.buffer # 0
          b == IF supplied THEN it.buffer ELSE Len(bs) + 1
          bs1 == IF supplied THEN bs
                 ELSE Append(bs, NewGPUBuffer("VERTEX", it.dataSize))
          elems == layoutElements(bs1[b].size, it.stride)
          size == layoutSize(elems, it.stride)
          base == IF elements = 0 THEN elems ELSE elements
          bad ==
            IF ~supplied
            THEN size = 0 \/ autoMismatch(elements, elems)
            ELSE \/ bs1[b].type # "VERTEX"
                 \/ suppliedMismatch(base, elems)
          failed == [fatal |-> TRUE, bufs |-> bs1, elements |-> elements,
                     vertexLayout |-> done]
      IN
        IF bad THEN failed
        ELSE IF bs1[b].size # size THEN failed
        ELSE ctorVertexLayouts(
               Tail(todo),
               Append(done, [stride |-> it.stride, elements |-> elems,
                             buffer |-> b]),
               base, vertexAddRef(bs1, b))

IndexFormatsOk(formats) ==
    /\ Len(formats) = 1
    /\ formats[1] \in {"R32u", "R32i", "R16u", "R16i"}

\* The kind test dropped: the reference is taken whatever the buffer is.
adoptIndexAlways(bs, b) == addRef(bs, b)

\* A supplied index buffer: fatal unless it is an INDEX buffer, else addRef.
adoptIndex(bs, b) == IF bs[b].type # "INDEX" THEN bs ELSE addRef(bs, b)

\* The index part of the constructor: allocate (no addRef), or adopt a
\* supplied INDEX buffer (addRef); then the format checks.
ctorIndexLayout(index, bs) ==
    IF ~index.hasIndices
    THEN [fatal |-> FALSE, bufs |-> bs, indexBuffer |-> index.buffer]
    ELSE
      LET supplied == index.buffer # 0
          b == IF supplied THEN index.buffer ELSE Len(bs) + 1
          bs1 == IF ~supplied
                 THEN Append(bs, NewGPUBuffer("INDEX", index.dataSize))
                 ELSE adoptIndex(bs, b)
      IN [fatal |-> (supplied /\ bs[b].type # "INDEX")
                      \/ ~IndexFormatsOk(index.formats),
          bufs |-> bs1, indexBuffer |-> b]

\* PrimitiveBuffer::PrimitiveBuffer, the whole constructor.
PrimitiveBufferCtor(info, bs) ==
    LET v == ctorVertexLayouts(info.vertexLayout, <<>>, 0, bs) IN
    IF v.fatal \/ Len(info.vertexLayout) = 0
    THEN [fatal |-> TRUE, bufs |-> v.bufs, elements |-> v.elements,
          vertexLayout |-> v.vertexLayout, indexBuffer |-> 0]
    ELSE LET x == ctorIndexLayout(info.index, v.bufs) IN
         [fatal |-> x.fatal, bufs |-> x.bufs, elements |-> v.elements,
          vertexLayout |-> v.vertexLayout, indexBuffer |-> x.indexBuffer]

\* loseRef on each buffer of a list, in order; a fatal one ends it.
RECURSIVE loseRefs(_, _)
loseRefs(todo, bs) ==
    IF todo = <<>> THEN [fatal |-> FALSE, bufs |-> bs]
    ELSE IF loseRefIsFatal(bs, Head(todo)) THEN [fatal |-> TRUE, bufs |-> bs]
    ELSE loseRefs(Tail(todo), loseRef(bs, Head(todo)))

\* PrimitiveBuffer::~PrimitiveBuffer: one loseRef per vertex layout, and one
\* on the index buffer if there is one.
PrimitiveBufferDtor(pb, bs) ==
    loseRefs([i \in 1..Len(pb.vertexLayout) |-> pb.vertexLayout[i].buffer]
               \o (IF pb.indexBuffer # 0 THEN <<pb.indexBuffer>> ELSE <<>>),
             bs)

\* ---- the inputs

PbIds == {1, 2}

\* The buffers the application created itself.
ExternalBuffers == {1, 2}

\* Longest vertexLayout list given to a constructor.
MaxLayouts == 2

\* A vertex layout as given: a supplied buffer, or none (buffer = 0) and 8
\* bytes of initData; 4 bytes per element.
LayoutInputs ==
    [stride : {4}, buffer : {0} \cup ExternalBuffers, dataSize : {8}]

\* The index layout as given: none, one to allocate, or buffer 2 supplied.
IndexInputs ==
    {[buffer |-> 0, dataSize |-> 0, formats |-> <<>>, hasIndices |-> FALSE]}
      \cup [buffer : {0, 2}, dataSize : {8}, formats : {<<"R16u">>},
            hasIndices : {TRUE}]

VertexLayoutInputs ==
    UNION {[1..n -> LayoutInputs] : n \in 0..MaxLayouts}

\* The buffers an Info names.
InfoBuffers(info) ==
    ({info.vertexLayout[i].buffer : i \in 1..Len(info.vertexLayout)}
       \cup {info.index.buffer}) \ {0}

NoPrimitiveBuffer ==
    [elements |-> 0, vertexLayout |-> <<>>, indexBuffer |-> 0,
     state |-> "none"]

\* ---- the operations

\* new PrimitiveBuffer(g, name, info); the application passes live buffers.
PbCreate(p, info) ==
    /\ ~fatal /\ pbs[p].state = "none"
    /\ \A b \in InfoBuffers(info) : ~bufs[b].freed
    /\ LET r == PrimitiveBufferCtor(info, bufs) IN
       /\ fatal' = r.fatal
       /\ bufs' = r.bufs
       /\ pbs' = IF r.fatal THEN pbs
                 ELSE [pbs EXCEPT ![p] =
                         [elements |-> r.elements,
                          vertexLayout |-> r.vertexLayout,
                          indexBuffer |-> r.indexBuffer, state |-> "alive"]]
    /\ pbLast' = [op |-> "create", pb |-> p]
    /\ UNCHANGED <<appRef, otherThanPb>>

\* The PrimitiveBuffer is destroyed.
PbDestroy(p) ==
    /\ ~fatal /\ pbs[p].state = "alive"
    /\ LET r == PrimitiveBufferDtor(pbs[p], bufs) IN
       /\ fatal' = r.fatal
       /\ bufs' = r.bufs
    /\ pbs' = [pbs EXCEPT ![p] = [NoPrimitiveBuffer EXCEPT !.state = "destroyed"]]
    /\ pbLast' = [op |-> "destroy", pb |-> p]
    /\ UNCHANGED <<appRef, otherThanPb>>

\* The application takes a reference of its own on a buffer it created.
AppAddRef(b) ==
    /\ ~fatal /\ b \notin appRef /\ ~bufs[b].freed
    /\ bufs' = addRef(bufs, b)
    /\ appRef' = appRef \cup {b}
    /\ pbLast' = [op |-> "addRef", pb |-> 0]
    /\ UNCHANGED <<fatal, pbs, otherThanPb>>

\* The application releases the reference it holds.
AppLoseRef(b) ==
    /\ ~fatal /\ b \in appRef
    /\ bufs' = loseRef(bufs, b)
    /\ appRef' = appRef \ {b}
    /\ pbLast' = [op |-> "loseRef", pb |-> 0]
    /\ UNCHANGED <<fatal, pbs, otherThanPb>>

InitPB ==
    /\ fatal = FALSE
    /\ FbIdle
    /\ CtxIdle
    /\ CtorIdle
    /\ GlxIdle
    /\ \E t \in {"VERTEX", "INDEX"}, s2 \in {8, 16} :
         bufs = <<NewGPUBuffer("VERTEX", 8), NewGPUBuffer(t, s2)>>
    /\ appRef = {}
    /\ pbs = [p \in PbIds |-> NoPrimitiveBuffer]
    /\ pbLast = [op |-> "none", pb |-> 0]

NextPB ==
    \/ \E p \in PbIds, v \in VertexLayoutInputs, x \in IndexInputs :
         PbCreate(p, [index |-> x, vertexLayout |-> v])
    \/ \E p \in PbIds : PbDestroy(p)
    \/ \E b \in ExternalBuffers : AppAddRef(b)
    \/ \E b \in ExternalBuffers : AppLoseRef(b)

SpecPB == InitPB /\ [][NextPB]_vars

\* How many references the live PrimitiveBuffers hold on buffer b: one per
\* vertex layout naming it and one for an index layout naming it.
RECURSIVE SumOver(_, _)
SumOver(f, S) ==
    IF S = {} THEN 0
    ELSE LET x == CHOOSE y \in S : TRUE IN f[x] + SumOver(f, S \ {x})

HeldBy(p, b) ==
    IF pbs[p].state # "alive" THEN 0
    ELSE Cardinality({i \in 1..Len(pbs[p].vertexLayout) :
                        pbs[p].vertexLayout[i].buffer = b})
           + (IF pbs[p].indexBuffer = b THEN 1 ELSE 0)

HeldByAll(b) == SumOver([p \in PbIds |-> HeldBy(p, b)], PbIds)

(***************************************************************************)
(* C2: an externally supplied GPUBuffer gains one reference per            *)
(* PrimitiveBuffer constructed on it and loses one per PrimitiveBuffer     *)
(* destroyed (2 -> 1 -> 0 when two share it), and it is freed only when    *)
(* no PrimitiveBuffer that was given it still exists.                      *)
(***************************************************************************)
C2_SharedBufferRefs ==
    ~fatal =>
      \A b \in ExternalBuffers :
        /\ bufs[b].refCount = HeldByAll(b) + (IF b \in appRef THEN 1 ELSE 0)
        /\ bufs[b].freed => HeldByAll(b) = 0

\* Both PrimitiveBuffers were built on buffer 1, one of them is destroyed and
\* the buffer, now held once, is still there.
C2_Witness ==
    /\ ~fatal
    /\ pbs[1].state = "destroyed" /\ pbs[2].state = "alive"
    /\ pbLast = [op |-> "destroy", pb |-> 1]
    /\ HeldBy(2, 1) = 1
    /\ bufs[1].refCount = 1 /\ ~bufs[1].freed

(***************************************************************************)
(* Graphics, Graphics::Data and the per-thread GLContext                   *)
(***************************************************************************)

Threads == {1, 2}


Pipelines == {"P1"}

DescriptorSets == {"D1"}

Framebuffers == {"F1", "F2"}

PrimitiveBufferObjs == {"PB1"}

GraphicsObjects ==
    Pipelines \cup DescriptorSets \cup Framebuffers \cup PrimitiveBufferObjs

Swapchains == {"SC"}

\* Surface sizes: F1 has the swapchain's size, F2 has not.
SurfaceSize(surface) == IF surface = "F2" THEN <<2, 2>> ELSE <<4, 4>>

\* Framebuffer::Data::index of the two framebuffers (each was resized once
\* and holds a render texture).
FramebufferIndex(f) == IF f = "F1" THEN 1 ELSE 2

\* The keys of GLContext::boundByBase, (u64(localId) << 32) | category: the
\* native enums are distinct and below 2^32, so a key is the pair.
BufferCategories == {"GL_UNIFORM_BUFFER", "GL_SHADER_STORAGE_BUFFER"}

Categories == BufferCategories \cup {"GL_SAMPLER", "GL_TEXTURE", "GL_IMAGE_2D"}

LocalIds == {0, 1}

boundKey(localId, category) == <<localId, category>>

RangeKeys == LocalIds \X Categories

\* BoundRange{}: nothing bound.
NoRange == [size |-> 0, offset |-> 0, handle |-> 0]

\* A GLContext as contexts[threadId] default-constructs it. `live' tells
\* whether the map holds the entry at all; vaos maps a PrimitiveBuffer to its
\* vertex array name, 0 where the map has no entry.
NewContext ==
    [viewportSize |-> <<0, 0>>, live |-> TRUE,
     pipeline |-> Null, descriptors |-> Null, currentFramebuffer |-> Null,
     primitiveBuffer |-> Null,
     bound |-> [read |-> 0, draw |-> 0],
     boundByBase |-> [k \in RangeKeys |-> NoRange],
     vaos |-> [pb \in PrimitiveBufferObjs |-> 0],
     deletedVaos |-> <<>>,
     frameId |-> 0,
     viewportOff |-> <<0, 0>>, enableScissor |-> FALSE]

NoContext == [NewContext EXCEPT !.live = FALSE]

\* Graphics::Data::getContext: contexts[oic::Thread::getCurrentId()], which
\* creates the context on first use.
getContext(ctxs, t) == IF ctxs[t].live THEN ctxs[t] ELSE NewContext

\* ---- Graphics::onAddOrErase(go, isDeleted = true)

\* The `currently bound' pointer after go is destroyed.
unbind(ptr, go) == IF ptr = go THEN Null ELSE ptr

\* A plausible slip: the vertex array of a destroyed PrimitiveBuffer is
\* never found, so nothing is queued.
hasVaoNever(ctx, pb) == FALSE

\* vaos.find(pb) != vaos.end()
hasVao(ctx, pb) == ctx.vaos[pb] # 0

\* What the two loops over data->contexts do to one context.
onEraseContext(ctx, go) ==
    LET c1 == IF go \in Pipelines
              THEN [ctx EXCEPT !.pipeline = unbind(@, go)]
              ELSE IF go \in DescriptorSets
              THEN [ctx EXCEPT !.descriptors = unbind(@, go)]
              ELSE IF go \in Framebuffers
              THEN [ctx EXCEPT !.currentFramebuffer = unbind(@, go)]
              ELSE ctx
    IN IF go \in PrimitiveBufferObjs
       THEN [c1 EXCEPT !.primitiveBuffer = unbind(@, go),
                       !.deletedVaos = IF hasVao(c1, go)
                                       THEN Append(@, go) ELSE @]
       ELSE c1

\* onAddOrErase(go, true): every context of the map is visited.
onErase(ctxs, go) ==
    [t \in Threads |->
       IF ctxs[t].live THEN onEraseContext(ctxs[t], go) ELSE ctxs[t]]

\* ---- Graphics::Data::updateContext

\* A plausible slip: the entries are erased but the queue is not cleared.
updateContextKeepsQueue(ctx) ==
    [ctx EXCEPT
       !.vaos = [pb \in PrimitiveBufferObjs |->
                   IF pb \in SeqToSet(ctx.deletedVaos) THEN 0
                   ELSE ctx.vaos[pb]]]

\* glDeleteVertexArrays on every queued PrimitiveBuffer's vertex array, the
\* entries erased, the queue cleared.
updateContext(ctx) ==
    [ctx EXCEPT
       !.vaos = [pb \in PrimitiveBufferObjs |->
                   IF pb \in SeqToSet(ctx.deletedVaos) THEN 0
                   ELSE ctx.vaos[pb]],
       !.deletedVaos = <<>>]

\* ---- glxBeginRenderPass(ctx, framebuffer): the cached draw framebuffer.
glxBeginRenderPass(ctx, framebuffer) ==
    IF ctx.bound.draw # framebuffer
    THEN [ctx EXCEPT !.bound.draw = framebuffer]
    ELSE ctx

\* ---- glxSetViewport(ctx, size, offset): a null size stands for the size
\* of the bound framebuffer (oicAssert: there is one); glViewport is called
\* when offset or size differ from the cached ones.
glxSetViewport(ctx, size, offset) ==
    LET sz == IF size[1] = 0 \/ size[2] = 0
              THEN SurfaceSize(ctx.currentFramebuffer)
              ELSE size
    IN [ctx EXCEPT !.viewportOff = offset, !.viewportSize = sz]

\* ---- glxSetViewportAndScissor(ctx, size, offset): the scissor test is
\* switched off, then the viewport is set.
glxSetViewportAndScissor(ctx, size, offset) ==
    glxSetViewport([ctx EXCEPT !.enableScissor = FALSE], size, offset)

\* ---- the commands (gl_command_list.cpp is not part of the sources:
\* section 4.6 of the specification, a bind sets the context's `currently
\* bound' entry; a PrimitiveBuffer gets its vertex array on first bind)

vaoNames(ctx) == {ctx.vaos[pb] : pb \in PrimitiveBufferObjs} \ {0}

execCommand(ctx, cmd) ==
    CASE cmd.op = "BindPipeline" -> [ctx EXCEPT !.pipeline = cmd.obj]
      [] cmd.op = "BindDescriptors" -> [ctx EXCEPT !.descriptors = cmd.obj]
      [] cmd.op = "BindPrimitiveBuffer" ->
           [ctx EXCEPT !.primitiveBuffer = cmd.obj,
                       !.vaos[cmd.obj] =
                          IF @ = 0 THEN glGen(vaoNames(ctx)) ELSE @]
      [] cmd.op = "BeginFramebuffer" ->
           [glxBeginRenderPass(ctx, FramebufferIndex(cmd.obj))
              EXCEPT !.currentFramebuffer = cmd.obj]

RECURSIVE execCommands(_, _)
execCommands(ctx, cmds) ==
    IF cmds = <<>> THEN ctx
    ELSE execCommands(execCommand(ctx, Head(cmds)), Tail(cmds))

\* ---- Graphics::execute(commands)

\* What the first command of an execute finds.
FirstCmd(ran, ctx) ==
    [vaos |-> ctx.vaos, deletedVaos |-> ctx.deletedVaos, ran |-> ran]

\* A plausible slip: the queue is drained after the commands.
executeDrainsLast(ctx, cmds) ==
    [ctx |-> updateContext(execCommands(ctx, cmds)),
     log |-> [i \in 1..Len(cmds) |-> "command"] \o <<"updateContext">>,
     first |-> FirstCmd(cmds # <<>>, ctx)]

\* updateContext, then every command list. The result: the context
\* afterwards, the steps in order and what the first command found.
execute(ctx, cmds) ==
    LET c1 == updateContext(ctx) IN
    [ctx |-> execCommands(c1, cmds),
     log |-> <<"updateContext">> \o [i \in 1..Len(cmds) |-> "command"],
     first |-> FirstCmd(cmds # <<>>, c1)]

\* ---- Graphics::present(intermediate, swapchain, commands)

\* A plausible slip: the sizes are not compared.
presentIsFatalNoSizeCheck(intermediate, swapchain) == swapchain = Null

\* A plausible slip: a missing intermediate is fatal, as the message of the
\* first check suggests.
presentIsFatalNoIntermediate(intermediate, swapchain) ==
    \/ swapchain = Null \/ intermediate = Null
    \/ SurfaceSize(intermediate) # SurfaceSize(swapchain)

\* The two fatal checks at the head of present.
presentIsFatal(intermediate, swapchain) ==
    \/ swapchain = Null
    \/ /\ intermediate # Null
       /\ SurfaceSize(intermediate) # SurfaceSize(swapchain)

\* A plausible slip: the counter is not advanced.
nextFrameIdSame(frameId) == frameId

\* ++ctx.frameId
nextFrameId(frameId) == frameId + 1

\* The copy of the intermediate into the backbuffer: the viewport becomes
\* the swapchain's, the blit sets the cached read and draw framebuffers.
presentCopy(ctx, intermediate, swapchain) ==
    [glxSetViewportAndScissor(ctx, SurfaceSize(swapchain), <<0, 0>>)
       EXCEPT !.bound = [read |-> FramebufferIndex(intermediate),
                         draw |-> 0]]

\* present after its checks passed: the context afterwards, the steps in
\* order and what the first command found.
present(ctx, intermediate, swapchain, cmds) ==
    LET e == execute(ctx, cmds)
        copies == intermediate # Null
        c2 == IF copies THEN presentCopy(e.ctx, intermediate, swapchain)
              ELSE e.ctx
    IN [ctx |-> [c2 EXCEPT !.frameId = nextFrameId(@)],
        log |-> (IF intermediate = Null THEN <<"warn">> ELSE <<>>)
                  \o <<"swapchain.bind">> \o e.log
                  \o (IF copies THEN <<"setViewportAndScissor", "blit">>
                      ELSE <<>>)
                  \o <<"swapchain.present", "frameId">>,
        first |-> e.first]

\* ---- the inputs

\* Calls of execute and present in one run.
MaxSubmits == 2

\* Commands in one submission.
MaxCmds == 2

Commands ==
    [op : {"BindPipeline"}, obj : Pipelines]
      \cup [op : {"BindDescriptors"}, obj : DescriptorSets]
      \cup [op : {"BindPrimitiveBuffer"}, obj : PrimitiveBufferObjs]
      \cup [op : {"BeginFramebuffer"}, obj : {"F1"}]

CommandLists == UNION {[1..n -> Commands] : n \in 0..MaxCmds}

\* The objects a submission names are alive.
CmdsAlive(cmds) == \A i \in 1..Len(cmds) : objState[cmds[i].obj] = "alive"

NoFirstCmd == FirstCmd(FALSE, NewContext)

\* ---- the operations

\* A PrimitiveBuffer is constructed: onAddOrErase(go, false) registers it.
CreateObject(go) ==
    /\ ~fatal /\ objState[go] = "none"
    /\ objState' = [objState EXCEPT ![go] = "alive"]
    /\ primitiveBuffers' = IF go \in PrimitiveBufferObjs
                           THEN primitiveBuffers \cup {go}
                           ELSE primitiveBuffers
    /\ glLog' = <<>>
    /\ firstCmdCtx' = NoFirstCmd
    /\ ctxLast' = LastOp("create", 0, go)
    /\ UNCHANGED <<fatal, contexts, submits, otherThanCtx>>

\* A graphics object is destroyed: onAddOrErase(go, true).
DestroyObject(go) ==
    /\ ~fatal /\ objState[go] = "alive"
    /\ objState' = [objState EXCEPT ![go] = "destroyed"]
    /\ primitiveBuffers' = primitiveBuffers \ {go}
    /\ contexts' = onErase(contexts, go)
    /\ glLog' = <<>>
    /\ firstCmdCtx' = NoFirstCmd
    /\ ctxLast' = LastOp("destroy", 0, go)
    /\ UNCHANGED <<fatal, submits, otherThanCtx>>

\* Thread t calls g.execute(cmds).
Execute(t, cmds) ==
    /\ ~fatal /\ submits < MaxSubmits /\ CmdsAlive(cmds)
    /\ LET ctx == getContext(contexts, t)
           e == execute(ctx, cmds)
       IN /\ contexts' = [contexts EXCEPT ![t] = e.ctx]
          /\ glLog' = e.log
          /\ firstCmdCtx' = e.first
          /\ ctxLast' = [op |-> "execute", thread |-> t, obj |-> Null,
                         intermediate |-> Null, swapchain |-> Null,
                         drained |-> Len(ctx.deletedVaos),
                         submitted |-> Len(cmds)]
    /\ submits' = submits + 1
    /\ UNCHANGED <<fatal, objState, primitiveBuffers, otherThanCtx>>

\* Thread t calls g.present(intermediate, swapchain, cmds).
Present(t, intermediate, swapchain, cmds) ==
    /\ ~fatal /\ submits < MaxSubmits /\ CmdsAlive(cmds)
    /\ intermediate # Null => objState[intermediate] = "alive"
    /\ IF presentIsFatal(intermediate, swapchain)
       THEN /\ fatal' = TRUE
            /\ glLog' = <<"fatal">>
            /\ firstCmdCtx' = NoFirstCmd
            /\ ctxLast' = [op |-> "present", thread |-> t, obj |-> Null,
                           intermediate |-> intermediate,
                           swapchain |-> swapchain, drained |-> 0,
                           submitted |-> Len(cmds)]
            /\ UNCHANGED contexts
       ELSE LET ctx == getContext(contexts, t)
                r == present(ctx, intermediate, swapchain, cmds)
            IN /\ contexts' = [contexts EXCEPT ![t] = r.ctx]
               /\ glLog' = r.log
               /\ firstCmdCtx' = r.first
               /\ ctxLast' = [op |-> "present", thread |-> t, obj |-> Null,
                              intermediate |-> intermediate,
                              swapchain |-> swapchain,
                              drained |-> Len(ctx.deletedVaos),
                         submitted |-> Len(cmds)]
               /\ UNCHANGED fatal
    /\ submits' = submits + 1
    /\ UNCHANGED <<objState, primitiveBuffers, otherThanCtx>>

\* Thread t tears its context down: Graphics::Data::destroyContext deletes
\* every cached vertex array and erases the context.
DestroyContext(t) ==
    /\ ~fatal /\ contexts[t].live
    /\ contexts' = [contexts EXCEPT ![t] = NoContext]
    /\ glLog' = <<>>
    /\ firstCmdCtx' = NoFirstCmd
    /\ ctxLast' = LastOp("destroyContext", t, Null)
    /\ UNCHANGED <<fatal, objState, primitiveBuffers, submits, otherThanCtx>>

Init ==
    /\ fatal = FALSE
    /\ FbIdle
    /\ PbIdle
    /\ CtorIdle
    /\ GlxIdle
    /\ contexts = [t \in Threads |-> NoContext]
    /\ objState = [go \in GraphicsObjects |->
                     IF go \in PrimitiveBufferObjs THEN "none" ELSE "alive"]
    /\ primitiveBuffers = {}
    /\ submits = 0
    /\ glLog = <<>>
    /\ firstCmdCtx = NoFirstCmd
    /\ ctxLast = LastOp("none", 0, Null)
    /\ resources = <<>>
    /\ glCalls = <<>>

Next ==
    \/ \E go \in GraphicsObjects : CreateObject(go)
    \/ \E go \in GraphicsObjects : DestroyObject(go)
    \/ \E t \in Threads, cmds \in CommandLists : Execute(t, cmds)
    \/ \E t \in Threads, i \in Framebuffers \cup {Null},
          sc \in Swapchains \cup {Null}, cmds \in CommandLists :
         Present(t, i, sc, cmds)
    \/ \E t \in Threads : DestroyContext(t)

Spec == Init /\ [][Next]_vars

\* The positions of an event in the steps of the last operation.
Positions(log, event) == {i \in 1..Len(log) : log[i] = event}

(***************************************************************************)
(* C3: when a Pipeline, Descriptors, Framebuffer or PrimitiveBuffer is     *)
(* destroyed, every context's `currently bound' pointer of that kind is    *)
(* cleared if it pointed at the object and unchanged otherwise, and a      *)
(* destroyed PrimitiveBuffer is queued for deletion in every context that  *)
(* holds a vertex array for it.                                            *)
(***************************************************************************)
C3_DestroyClearsContexts ==
    [][ ctxLast'.op = "destroy" =>
          LET go == ctxLast'.obj
              Cleared(old, new) == new = IF old = go THEN Null ELSE old
          IN \A t \in Threads : contexts[t].live =>
               /\ contexts'[t].live
               /\ Cleared(contexts[t].pipeline, contexts'[t].pipeline)
               /\ Cleared(contexts[t].descriptors, contexts'[t].descriptors)
               /\ Cleared(contexts[t].currentFramebuffer,
                          contexts'[t].currentFramebuffer)
               /\ Cleared(contexts[t].primitiveBuffer,
                          contexts'[t].primitiveBuffer)
               /\ (go \in PrimitiveBufferObjs /\ contexts[t].vaos[go] # 0)
                    => go \in SeqToSet(contexts'[t].deletedVaos)
      ]_vars

C3_Witness ==
    /\ ctxLast.op = "destroy" /\ ctxLast.obj = "PB1"
    /\ \A t \in Threads : /\ contexts[t].live
                          /\ contexts[t].vaos["PB1"] # 0
                          /\ contexts[t].deletedVaos = <<"PB1">>
                          /\ contexts[t].primitiveBuffer = Null
    /\ contexts[1].pipeline = "P1"

(***************************************************************************)
(* C5: execute drains the calling context's deferred-deletion queue before *)
(* any command: when the first command runs the queue is empty and the     *)
(* vertex-array cache holds no entry for a destroyed PrimitiveBuffer.      *)
(***************************************************************************)
C5_DrainBeforeCommands ==
    (ctxLast.op \in {"execute", "present"} /\ firstCmdCtx.ran) =>
       /\ firstCmdCtx.deletedVaos = <<>>
       /\ \A pb \in PrimitiveBufferObjs :
            objState[pb] = "destroyed" => firstCmdCtx.vaos[pb] = 0
       /\ \A i \in Positions(glLog, "command") :
            \E j \in Positions(glLog, "updateContext") : j < i

C5_Witness ==
    /\ ctxLast.op = "execute" /\ firstCmdCtx.ran /\ ctxLast.drained > 0
    /\ objState["PB1"] = "destroyed"
    /\ firstCmdCtx.vaos["PB1"] = 0

(***************************************************************************)
(* C6: a context's frame counter never decreases; a present that completes *)
(* adds exactly one, as its last step, after the commands, the copy of the *)
(* intermediate (if any) and the swapchain's present; execute leaves the   *)
(* counter as it was.                                                      *)
(***************************************************************************)
C6_FrameCounter ==
    [][ \A t \in Threads :
          LET before == getContext(contexts, t).frameId
              after == contexts'[t].frameId
              mine == ctxLast'.thread = t
          IN /\ (contexts[t].live /\ contexts'[t].live)
                  => after >= contexts[t].frameId
             /\ (ctxLast'.op = "present" /\ mine /\ ~fatal') =>
                  /\ after = before + 1
                  /\ Positions(glLog', "frameId") = {Len(glLog')}
                  /\ Positions(glLog', "swapchain.present") = {Len(glLog') - 1}
                  /\ Cardinality(Positions(glLog', "command"))
                       = ctxLast'.submitted
                  /\ ctxLast'.intermediate # Null
                       => Positions(glLog', "blit") = {Len(glLog') - 2}
                  /\ \A i \in Positions(glLog', "command") :
                       \A j \in Positions(glLog', "blit")
                                \cup Positions(glLog', "swapchain.present") :
                          i < j
             /\ (ctxLast'.op = "execute" /\ mine) => after = before
      ]_vars

C6_Witness ==
    /\ ctxLast.op = "present" /\ ~fatal
    /\ ctxLast.intermediate = "F1" /\ ctxLast.submitted > 0
    /\ contexts[ctxLast.thread].frameId = 2

(***************************************************************************)
(* C7: present with an intermediate whose size is not the swapchain's is   *)
(* fatal, before the swapchain is bound, before any command runs and       *)
(* without touching the frame counter.                                     *)
(***************************************************************************)
C7_SizeMismatchIsFatal ==
    [][ ( /\ ctxLast'.op = "present"
          /\ ctxLast'.intermediate # Null /\ ctxLast'.swapchain # Null
          /\ SurfaceSize(ctxLast'.intermediate)
               # SurfaceSize(ctxLast'.swapchain) )
        => /\ fatal'
           /\ glLog' = <<"fatal">>
           /\ contexts' = contexts
      ]_vars

C7_Witness ==
    /\ fatal /\ ctxLast.op = "present"
    /\ ctxLast.intermediate = "F2" /\ ctxLast.swapchain = "SC"
    /\ ctxLast.submitted > 0
    /\ glLog = <<"fatal">>
    /\ contexts[ctxLast.thread].live /\ contexts[ctxLast.thread].frameId = 1

(***************************************************************************)
(* C8: present with a swapchain and no intermediate warns and goes on: the *)
(* commands run, nothing is copied, the swapchain is presented and the     *)
(* frame counter advances by one.                                          *)
(***************************************************************************)
C8_NoIntermediateWarns ==
    [][ ( /\ ctxLast'.op = "present"
          /\ ctxLast'.intermediate = Null /\ ctxLast'.swapchain # Null )
        => /\ ~fatal'
           /\ glLog' = <<"warn", "swapchain.bind", "updateContext">>
                         \o [i \in 1..ctxLast'.submitted |-> "command"]
                         \o <<"swapchain.present", "frameId">>
           /\ contexts'[ctxLast'.thread].frameId
                = getContext(contexts, ctxLast'.thread).frameId + 1
           /\ contexts'[ctxLast'.thread].bound.read
                = getContext(contexts, ctxLast'.thread).bound.read
      ]_vars

C8_Witness ==
    /\ ~fatal /\ ctxLast.op = "present"
    /\ ctxLast.intermediate = Null /\ ctxLast.swapchain = "SC"
    /\ ctxLast.submitted = 2
    /\ glLog = <<"warn", "swapchain.bind", "updateContext", "command",
                 "command", "swapchain.present", "frameId">>
    /\ contexts[ctxLast.thread].frameId = 1

(***************************************************************************)
(* Descriptor binding: glxBindDescriptors on the context of one thread     *)
(***************************************************************************)

Buffers == {"B1", "B2"}

Samplers == {"S1"}

Textures == {"T1"}

Resources == Buffers \cup Samplers \cup Textures

\* A resource that was not created yet; `handle' is its native name once it
\* is, textureViews the (range, view name) pairs of Texture::Data.
NoResource == [state |-> "none", handle |-> 0, textureViews |-> <<>>]

\* The native names in use: buffers, samplers and textures have a name space
\* each, and a texture view is a texture name.
viewNames(res, r) ==
    {res[r].textureViews[i].view : i \in 1..Len(res[r].textureViews)}

usedNames(res, r) ==
    IF r \in Buffers THEN {res[b].handle : b \in Buffers} \ {0}
    ELSE IF r \in Samplers THEN {res[x].handle : x \in Samplers} \ {0}
    ELSE UNION {{res[x].handle} \cup viewNames(res, x) : x \in Textures} \ {0}

\* The registers of a pipeline layout and the subresources of a Descriptors.
GlobalIds == {0, 1}

Register(globalId, localId, type, isWritable) ==
    [type |-> type, localId |-> localId, globalId |-> globalId,
     isWritable |-> isWritable]

NoSubresource ==
    [size |-> 0, offset |-> 0, resource |-> Null, textureRange |-> Null,
     samplerTexture |-> Null]

BufferSub(buffer, range) ==
    [NoSubresource EXCEPT !.resource = buffer, !.offset = range[1],
                          !.size = range[2]]

TextureSub(texture, range) ==
    [NoSubresource EXCEPT !.resource = texture, !.textureRange = range]

SamplerSub(sampler, texture, range) ==
    [NoSubresource EXCEPT !.resource = sampler, !.textureRange = range,
                          !.samplerTexture = texture]

\* ---- glxBindDescriptors

\* resource.type == CBUFFER ? GL_UNIFORM_BUFFER : GL_SHADER_STORAGE_BUFFER
bindPoint(type) ==
    IF type = "CBUFFER" THEN "GL_UNIFORM_BUFFER"
    ELSE "GL_SHADER_STORAGE_BUFFER"

Triple(handle, offset, size) ==
    [size |-> size, offset |-> offset, handle |-> handle]

\* A plausible slip: only the handle is compared.
sameRangeHandleOnly(bound, handle, offset, size) == bound.handle = handle

\* The test that skips the native call.
sameRange(bound, handle, offset, size) ==
    bound.handle = handle /\ bound.offset = offset /\ bound.size = size

\* One visited slot: the native call, its arguments, whether it was issued.
Call(call, key, triple, issued) ==
    [size |-> triple.size, offset |-> triple.offset,
     handle |-> triple.handle, call |-> call, key |-> key,
     issued |-> issued]

\* The lookup dropped: a view is made at every bind.
findViewNever(views, range) == 0

\* The view of tex over range: the one Texture::Data holds, else a new one
\* (glGenTextures, glTextureView) that is appended to them.
findView(views, range) ==
    LET hits == {i \in 1..Len(views) : views[i].range = range}
    IN IF hits = {} THEN 0
       ELSE views[CHOOSE i \in hits : \A j \in hits : i <= j].view

bindTexture(acc, reg, subres, tex) ==
    LET found == findView(acc.res[tex].textureViews, subres.textureRange)
        view == IF found # 0 THEN found ELSE glGen(usedNames(acc.res, tex))
        res1 == IF found # 0 THEN acc.res
                ELSE [acc.res EXCEPT ![tex].textureViews =
                        Append(@, [view |-> view,
                                   range |-> subres.textureRange])]
        key == boundKey(reg.localId,
                        IF reg.isWritable THEN "GL_IMAGE_2D"
                        ELSE "GL_TEXTURE")
        bound == acc.ctx.boundByBase[key]
        issued == bound.handle # view
    IN [ctx |-> [acc.ctx EXCEPT !.boundByBase[key].handle = view],
        res |-> res1,
        calls |-> Append(acc.calls,
                    Call(IF reg.isWritable THEN "glBindImageTexture"
                         ELSE "glBindTextureUnit",
                         key, Triple(view, 0, 0), issued))]

\* A plausible slip: the cache entry of the slot's buffer binding is
\* cleared.
unboundRegisterClears(acc, reg) ==
    [acc EXCEPT !.ctx.boundByBase[boundKey(reg.localId,
                                           bindPoint(reg.type))] = NoRange]

\* No resource is found under the register's global id: nothing is done.
unboundRegister(acc, reg) == acc

\* The body of the loop for one register of the pipeline layout.
bindRegister(acc, reg, descResources) ==
    LET subres == descResources[reg.globalId]
        r == subres.resource
    IN IF r = Null THEN unboundRegister(acc, reg)
       ELSE IF r \in Buffers
       THEN LET key == boundKey(reg.localId, bindPoint(reg.type))
                bound == acc.ctx.boundByBase[key]
                new == Triple(acc.res[r].handle, subres.offset, subres.size)
                skip == sameRange(bound, new.handle, new.offset, new.size)
            IN [acc EXCEPT
                  !.ctx.boundByBase[key] = IF skip THEN @ ELSE new,
                  !.calls = Append(@, Call("glBindBufferRange", key, new,
                                           ~skip))]
       ELSE IF r \in Samplers
       THEN LET key == boundKey(reg.localId, "GL_SAMPLER")
                bound == acc.ctx.boundByBase[key]
                handle == acc.res[r].handle
                a1 == [acc EXCEPT
                         !.ctx.boundByBase[key].handle = handle,
                         !.calls = Append(@, Call("glBindSampler", key,
                                            Triple(handle, 0, 0),
                                            bound.handle # handle))]
            IN IF subres.samplerTexture = Null THEN a1
               ELSE bindTexture(a1, reg, subres, subres.samplerTexture)
       ELSE bindTexture(acc, reg, subres, r)

RECURSIVE bindRegisters(_, _, _)
bindRegisters(acc, layout, descResources) ==
    IF layout = <<>> THEN acc
    ELSE bindRegisters(bindRegister(acc, Head(layout), descResources),
                       Tail(layout), descResources)

glxBindDescriptors(ctx, res, info) ==
    bindRegisters([ctx |-> ctx, res |-> res, calls |-> <<>>],
                  info.pipelineLayout, info.resources)

\* ---- the inputs

\* Calls of glxBindDescriptors in one run.
MaxBinds == 3

BufferRanges == {<<0, 16>>, <<0, 32>>, <<16, 16>>}

TextureRanges == {"all"}

\* Pipeline layouts, in the order the loop visits their registers: two
\* constant buffers on two binding points; a storage and a constant buffer
\* on one binding point; a read-only and a writable texture register.
BufferLayouts ==
    {<<Register(0, 0, "CBUFFER", FALSE), Register(1, 1, "CBUFFER", FALSE)>>,
     <<Register(0, 0, "SSBO", FALSE), Register(1, 0, "CBUFFER", FALSE)>>}

TextureLayouts ==
    {<<Register(1, 0, "TEXTURE", w)>> : w \in BOOLEAN}

BufferSubs == {BufferSub(b, r) : b \in Buffers, r \in BufferRanges}

\* The second register is given one range only.
SecondBufferSubs == {BufferSub(b, <<0, 16>>) : b \in Buffers}

TextureSubs ==
    {TextureSub(t, r) : t \in Textures, r \in TextureRanges}
      \cup {SamplerSub(x, t, "all") : x \in Samplers,
                                      t \in Textures \cup {Null}}

\* Descriptors::Info as glxBindDescriptors reads it: the layout and, for the
\* global ids that have one, the subresource.
DescriptorInfos ==
    {[resources |-> [g \in GlobalIds |-> IF g = 0 THEN s0 ELSE s1],
      pipelineLayout |-> l] :
        l \in BufferLayouts,
        s0 \in BufferSubs \cup {NoSubresource},
        s1 \in SecondBufferSubs \cup {NoSubresource}}
      \cup {[resources |-> [g \in GlobalIds |->
                               IF g = 0 THEN NoSubresource ELSE s1],
              pipelineLayout |-> l] :
                l \in TextureLayouts, s1 \in TextureSubs}

\* The resources a Descriptors names exist.
InfoAlive(info) ==
    \A g \in GlobalIds :
       LET sub == info.resources[g] IN
       /\ sub.resource # Null => resources[sub.resource].state = "alive"
       /\ sub.samplerTexture # Null
            => resources[sub.samplerTexture].state = "alive"

\* ---- the operations

\* A GPUBuffer, Sampler or Texture is created: the driver hands out a name
\* that is not in use (gl_gpu_buffer.cpp and its like are not part of the
\* sources; a deleted name is free again).
CreateResource(r) ==
    /\ ~fatal /\ resources[r].state = "none"
    /\ resources' = [resources EXCEPT
                       ![r] = [state |-> "alive",
                               handle |-> glGen(usedNames(resources, r)),
                               textureViews |-> <<>>]]
    /\ glCalls' = <<>>
    /\ ctxLast' = LastOp("createResource", 1, r)
    /\ UNCHANGED <<fatal, contexts, submits, otherThanDesc>>

\* It is destroyed: its names are deleted and Graphics::onAddOrErase(go,
\* true) runs over the contexts.
DestroyResource(r) ==
    /\ ~fatal /\ resources[r].state = "alive"
    /\ resources' = [resources EXCEPT
                       ![r] = [NoResource EXCEPT !.state = "destroyed"]]
    /\ contexts' = onErase(contexts, r)
    /\ glCalls' = <<>>
    /\ ctxLast' = LastOp("destroyResource", 1, r)
    /\ UNCHANGED <<fatal, submits, otherThanDesc>>

\* Thread 1 binds a Descriptors: what it does to the context and the
\* resources.
bindDescriptorsOnThread1(info) ==
    /\ ~fatal /\ submits < MaxBinds /\ InfoAlive(info)
    /\ LET r == glxBindDescriptors(getContext(contexts, 1), resources, info)
       IN /\ contexts' = [contexts EXCEPT ![1] = r.ctx]
          /\ resources' = r.res
          /\ glCalls' = r.calls
    /\ submits' = submits + 1
    /\ ctxLast' = LastOp("bindDescriptors", 1, Null)
    /\ UNCHANGED <<fatal, objState, primitiveBuffers, glLog, firstCmdCtx>>

\* Thread 1 binds a Descriptors.
BindDescriptors(info) ==
    /\ bindDescriptorsOnThread1(info)
    /\ UNCHANGED <<fbVars, pbVars, ctorVars, glxVars>>

InitDesc ==
    /\ fatal = FALSE
    /\ FbIdle
    /\ PbIdle
    /\ CtorIdle
    /\ GlxIdle
    /\ contexts = [t \in Threads |-> NoContext]
    /\ objState = <<>>
    /\ primitiveBuffers = {}
    /\ submits = 0
    /\ glLog = <<>>
    /\ firstCmdCtx = NoFirstCmd
    /\ ctxLast = LastOp("none", 0, Null)
    /\ resources = [r \in Resources |->
                       IF r = "B2" THEN NoResource
                       ELSE [NoResource EXCEPT !.state = "alive",
                                               !.handle = 1]]
    /\ glCalls = <<>>

NextDesc ==
    \/ \E r \in Resources : CreateResource(r)
    \/ \E r \in Resources : DestroyResource(r)
    \/ \E info \in DescriptorInfos : BindDescriptors(info)

SpecDesc == InitDesc /\ [][NextDesc]_vars

\* The resources whose native names the entries of a category hold.
ResourcesOf(category) ==
    IF category \in BufferCategories THEN Buffers
    ELSE IF category = "GL_SAMPLER" THEN Samplers
    ELSE Textures

(***************************************************************************)
(* C1: glxBindDescriptors issues the native buffer-range bind for a buffer *)
(* slot if and only if (handle, offset, size) differs from what the        *)
(* context recorded last for that binding point and buffer category, and   *)
(* the context records the triple: the same range twice in succession is   *)
(* one native call, a different range next is a second one.                *)
(***************************************************************************)
C1_BufferRangeDedup ==
    [][ ctxLast'.op = "bindDescriptors" =>
          \A i \in 1..Len(glCalls') :
             LET c == glCalls'[i]
                 triple == Triple(c.handle, c.offset, c.size)
                 cached == getContext(contexts, 1).boundByBase[c.key]
             IN c.call = "glBindBufferRange" =>
                  /\ c.issued <=> (triple # cached)
                  /\ contexts'[1].boundByBase[c.key] = triple
      ]_vars

C1_Witness ==
    /\ ctxLast.op = "bindDescriptors" /\ submits = 3
    /\ \E i, j \in 1..Len(glCalls) :
          /\ glCalls[i].call = "glBindBufferRange" /\ ~glCalls[i].issued
          /\ glCalls[j].call = "glBindBufferRange" /\ glCalls[j].issued
          /\ glCalls[j].size = 32

(***************************************************************************)
(* C4: after a resource object is destroyed no context's range-bound table *)
(* holds an entry with a native handle of the destroyed object: every      *)
(* handle in the table is a name of a live object of the entry's category. *)
(***************************************************************************)
C4_NoStaleHandle ==
    \A t \in Threads, k \in RangeKeys :
       LET h == contexts[t].boundByBase[k].handle IN
       h # 0 => \E r \in ResourcesOf(k[2]) :
                   /\ resources[r].state = "alive"
                   /\ h \in {resources[r].handle} \cup viewNames(resources, r)

(***************************************************************************)
(* Commands: cmd::DrawInstanced                                            *)
(***************************************************************************)

\* A plausible slip: start and count, which the struct declares in the
\* other order, are swapped.
DrawInstancedSwapped(count, instanceCount, start, instanceStart) ==
    [op |-> "CMD_DRAW_INSTANCED", count |-> start,
     instanceCount |-> instanceCount, start |-> count,
     instanceStart |-> instanceStart, vertexStart |-> 0,
     isIndexed |-> FALSE]

\* DrawInstanced(count, instanceCount, start, instanceStart): vertexStart()
\* is value-initialised, isIndexed(false).
DrawInstanced(count, instanceCount, start, instanceStart) ==
    [op |-> "CMD_DRAW_INSTANCED", count |-> count,
     instanceCount |-> instanceCount, start |-> start,
     instanceStart |-> instanceStart, vertexStart |-> 0,
     isIndexed |-> FALSE]

\* DrawInstanced::indexed(count, instanceCount, start, instanceStart,
\* vertexStart): the non-indexed command with di.vertexStart assigned.
indexed(count, instanceCount, start, instanceStart, vertexStart) ==
    [DrawInstanced(count, instanceCount, start, instanceStart)
       EXCEPT !.vertexStart = vertexStart]

\* The arguments tried: the defaults (1, 0, 0, 0) and others.
Counts == {0, 1, 10, 1000}

InstanceCounts == {1, 2, 3}

Starts == {0, 3}

InstanceStarts == {0, 1}

VertexStarts == {0, 4}

NewDrawInstanced(count, instanceCount, start, instanceStart) ==
    /\ ~fatal
    /\ ctorIn' = [kind |-> "DrawInstanced", count |-> count,
                  instanceCount |-> instanceCount, start |-> start,
                  instanceStart |-> instanceStart, vertexStart |-> 0]
    /\ ctorOut' = DrawInstanced(count, instanceCount, start, instanceStart)
    /\ UNCHANGED <<fatal, otherThanCtor>>

NewIndexed(count, instanceCount, start, instanceStart, vertexStart) ==
    /\ ~fatal
    /\ ctorIn' = [kind |-> "DrawInstanced::indexed", count |-> count,
                  instanceCount |-> instanceCount, start |-> start,
                  instanceStart |-> instanceStart,
                  vertexStart |-> vertexStart]
    /\ ctorOut' = indexed(count, instanceCount, start, instanceStart,
                          vertexStart)
    /\ UNCHANGED <<fatal, otherThanCtor>>

InitCmd ==
    /\ fatal = FALSE
    /\ FbIdle
    /\ PbIdle
    /\ CtxIdle
    /\ CtorIdle
    /\ GlxIdle

NextCmd ==
    \E c \in Counts, ic \in InstanceCounts, st \in Starts,
       is \in InstanceStarts :
       \/ NewDrawInstanced(c, ic, st, is)
       \/ \E vs \in VertexStarts : NewIndexed(c, ic, st, is, vs)

SpecCmd == InitCmd /\ [][NextCmd]_vars

(***************************************************************************)
(* C15: DrawInstanced::indexed(count, instanceCount, start, instanceStart, *)
(* vertexStart) builds a command with isIndexed == true and the given      *)
(* vertexStart.                                                            *)
(***************************************************************************)
C15_IndexedIsIndexed ==
    ctorIn.kind = "DrawInstanced::indexed" =>
       /\ ctorOut.isIndexed
       /\ ctorOut.vertexStart = ctorIn.vertexStart

(***************************************************************************)
(* C16: DrawInstanced(count, instanceCount, start, instanceStart) builds a *)
(* command with isIndexed == false and vertexStart == 0 that holds count,  *)
(* instanceCount, start and instanceStart as given.                        *)
(***************************************************************************)
C16_NonIndexedFields ==
    ctorIn.kind = "DrawInstanced" =>
       /\ ~ctorOut.isIndexed /\ ctorOut.vertexStart = 0
       /\ ctorOut.count = ctorIn.count
       /\ ctorOut.instanceCount = ctorIn.instanceCount
       /\ ctorOut.start = ctorIn.start
       /\ ctorOut.instanceStart = ctorIn.instanceStart

\* The constructor was called with four different arguments.
C16_Witness ==
    /\ ctorIn.kind = "DrawInstanced"
    /\ ctorIn.count = 10 /\ ctorIn.instanceCount = 3
    /\ ctorIn.start = 3 /\ ctorIn.instanceStart = 1
    /\ ctorOut.count = 10 /\ ctorOut.start = 3 /\ ~ctorOut.isIndexed

(***************************************************************************)
(* Pipeline::Info: its constructors and its classification.                *)
(* enum class ShaderStage is only declared in pipeline.hpp; its values     *)
(* follow its description: the graphics stages VERTEX..FRAGMENT come       *)
(* first, COMPUTE after them, and the raytracing stages carry the          *)
(* PROPERTY_IS_RAYTRACING bit.                                             *)
(***************************************************************************)

VERTEX == 0

FRAGMENT == 4

COMPUTE == 5

MESH_EXT == 7

PROPERTY_IS_RAYTRACING == 32

RAYGEN_EXT == PROPERTY_IS_RAYTRACING + 8

\* u8(stage) & u8(PROPERTY_IS_RAYTRACING), a one-bit mask.
hasRaytracingBit(stage) == (stage \div PROPERTY_IS_RAYTRACING) % 2 = 1

\* The orders in which a hash map holding these entries may iterate.
Orders(entries) ==
    {q \in [1..Len(entries) -> SeqToSet(entries)] :
        SeqToSet(q) = SeqToSet(entries)}

StageEntry(stage, binary) == [stage |-> stage, binary |-> binary]

\* An Info; stages is the map in its iteration order, binaries the length
\* of the binary list.
PipelineInfo(stages, binaries, groupSize) ==
    [kind |-> "Pipeline::Info", stages |-> stages, binaries |-> binaries,
     groupSize |-> groupSize]

\* Info(f, attributeLayout, binaries, stages, ...): fatal on a stage above
\* FRAGMENT, else on a binary id above binaries.size().
InfoFromBinariesIsFatal(stages, binaries) ==
    \E i \in 1..Len(stages) :
       \/ stages[i].stage > FRAGMENT
       \/ stages[i].binary > binaries

\* The stage test dropped.
InfoFromStageBuffersNeverFatal(cstages) == FALSE

\* Info(f, attributeLayout, cstages, ...): each stage brings its own binary,
\* pushed in iteration order.
InfoFromStageBuffersIsFatal(cstages) ==
    \E i \in 1..Len(cstages) : cstages[i] > FRAGMENT

InfoFromStageBuffers(cstages) ==
    [i \in 1..Len(cstages) |-> StageEntry(cstages[i], i - 1)]

\* Info(f, attributeLayout, binary, cstages, ...): every stage points at
\* the one binary.
InfoFromBinary(cstages) ==
    [i \in 1..Len(cstages) |-> StageEntry(cstages[i], 0)]

\* Info(f, computeShader, pipelineLayout, groupSize, entryPoint).
InfoCompute(groupSize) ==
    PipelineInfo(<<StageEntry(COMPUTE, 0)>>, 1, groupSize)

hasStage(info, stage) ==
    \E i \in 1..Len(info.stages) : info.stages[i].stage = stage

isCompute(info) == Len(info.stages) = 1 /\ hasStage(info, COMPUTE)

\* The bit test dropped.
isRaytracingAnyStage(info) == Len(info.stages) >= 1

isRaytracing(info) ==
    Len(info.stages) >= 1 /\ hasRaytracingBit(info.stages[1].stage)

\* The compute test dropped.
isGraphicsNotRaytracing(info) == ~isRaytracing(info)

isGraphics(info) == ~isCompute(info) /\ ~isRaytracing(info)

MaxStages == 2

StageInputs == {VERTEX, FRAGMENT, COMPUTE, MESH_EXT, RAYGEN_EXT}

\* Stage lists without a repeated stage.
StageLists ==
    UNION {{q \in [1..n -> StageInputs] :
               \A i, j \in 1..n : q[i] = q[j] => i = j} : n \in 0..MaxStages}

BinaryIds == {0, 1, 2}

BinaryCounts == {0, 1}

GroupSizes == {<<1, 1, 1>>, <<8, 8, 1>>}

NoGroupSize == <<0, 0, 0>>

\* The construction either ends the process or leaves the Info.
Constructed(kind, input, isFatal, stages, binaries, groupSize) ==
    /\ ~fatal
    /\ ctorIn' = [kind |-> kind, stages |-> input, binaries |-> binaries,
                  groupSize |-> groupSize]
    /\ fatal' = isFatal
    /\ IF isFatal
       THEN ctorOut' = NoCtor
       ELSE \E order \in Orders(stages) :
               ctorOut' = PipelineInfo(order, binaries, groupSize)
    /\ UNCHANGED otherThanCtor

NewInfoFromBinaries(stageList, ids, binaries) ==
    LET stages == [i \in 1..Len(stageList) |->
                      StageEntry(stageList[i], ids[i])]
    IN  Constructed("Info(binaries, stages)", stages,
                    InfoFromBinariesIsFatal(stages, binaries),
                    stages, binaries, NoGroupSize)

NewInfoFromStageBuffers(cstages) ==
    Constructed("Info(cstages)", cstages,
                InfoFromStageBuffersIsFatal(cstages),
                InfoFromStageBuffers(cstages), Len(cstages), NoGroupSize)

NewInfoFromBinary(cstages) ==
    Constructed("Info(binary, cstages)", cstages,
                InfoFromStageBuffersIsFatal(cstages),
                InfoFromBinary(cstages), 1, NoGroupSize)

NewInfoCompute(groupSize) ==
    /\ ~fatal
    /\ ctorIn' = [kind |-> "Info(compute)", stages |-> <<>>,
                  binaries |-> 1, groupSize |-> groupSize]
    /\ ctorOut' = InfoCompute(groupSize)
    /\ UNCHANGED <<fatal, otherThanCtor>>

InitInfo ==
    /\ fatal = FALSE
    /\ FbIdle
    /\ PbIdle
    /\ CtxIdle
    /\ CtorIdle
    /\ GlxIdle

NextInfo ==
    \/ \E stageList \in StageLists, binaries \in BinaryCounts :
          \E ids \in [1..Len(stageList) -> BinaryIds] :
             NewInfoFromBinaries(stageList, ids, binaries)
    \/ \E cstages \in StageLists : NewInfoFromStageBuffers(cstages)
    \/ \E cstages \in StageLists : NewInfoFromBinary(cstages)
    \/ \E groupSize \in GroupSizes : NewInfoCompute(groupSize)

SpecInfo == InitInfo /\ [][NextInfo]_vars

(***************************************************************************)
(* C17: a Pipeline::Info built by the compute constructor is compute, and  *)
(* is neither graphics nor raytracing.                                     *)
(***************************************************************************)
C17_ComputeInfoIsCompute ==
    ctorIn.kind = "Info(compute)" =>
       /\ isCompute(ctorOut)
       /\ ~isGraphics(ctorOut)
       /\ ~isRaytracing(ctorOut)

C17_Witness ==
    /\ ctorIn.kind = "Info(compute)"
    /\ ctorOut.stages = <<StageEntry(COMPUTE, 0)>>
    /\ ctorOut.groupSize = <<8, 8, 1>>
    /\ isCompute(ctorOut)

\* How many of the three classifications hold.
Classifications(info) ==
    (IF isCompute(info) THEN 1 ELSE 0)
    + (IF isRaytracing(info) THEN 1 ELSE 0)
    + (IF isGraphics(info) THEN 1 ELSE 0)

(***************************************************************************)
(* C18: every Pipeline::Info that one of the constructors built without a  *)
(* fatal error is exactly one of compute, raytracing and graphics.         *)
(***************************************************************************)
C18_ExactlyOneClassification ==
    (ctorOut.kind = "Pipeline::Info" /\ ~fatal) =>
       Classifications(ctorOut) = 1

\* A graphics Info of two stages and a compute Info both occur; the state
\* here is the graphics one.
C18_Witness ==
    /\ ctorIn.kind = "Info(cstages)" /\ ~fatal
    /\ ctorOut.kind = "Pipeline::Info"
    /\ Len(ctorOut.stages) = 2
    /\ hasStage(ctorOut, VERTEX) /\ hasStage(ctorOut, FRAGMENT)
    /\ isGraphics(ctorOut) /\ ~isCompute(ctorOut) /\ ~isRaytracing(ctorOut)

(***************************************************************************)
(* One PrimitiveBuffer construction over a wider range of layouts          *)
(***************************************************************************)

\* A vertex layout as given: 4 or 8 bytes per element; a supplied buffer,
\* or none and 0, 8, 12 or 16 bytes of initData.
CtorLayoutInputs ==
    [stride : {4, 8}, buffer : {0} \cup ExternalBuffers,
     dataSize : {0, 8, 12, 16}]

CtorVertexLayoutInputs ==
    UNION {[1..n -> CtorLayoutInputs] : n \in 0..MaxLayouts}

\* new PrimitiveBuffer(g, name, info), once.
PbConstruct(info) ==
    /\ ~fatal /\ ctorIn = NoCtor
    /\ LET r == PrimitiveBufferCtor(info, bufs) IN
       /\ fatal' = r.fatal
       /\ bufs' = r.bufs
       /\ pbs' = IF r.fatal THEN pbs
                 ELSE [pbs EXCEPT ![1] =
                         [elements |-> r.elements,
                          vertexLayout |-> r.vertexLayout,
                          indexBuffer |-> r.indexBuffer, state |-> "alive"]]
    /\ pbLast' = [op |-> "create", pb |-> 1]
    /\ ctorIn' = [info |-> info, kind |-> "PrimitiveBuffer"]
    /\ UNCHANGED <<appRef, ctorOut, fbVars, ctxVars, descVars, glxVars>>

InitPbCtor ==
    /\ fatal = FALSE
    /\ FbIdle
    /\ CtxIdle
    /\ CtorIdle
    /\ GlxIdle
    /\ \E s1 \in {0, 8, 16}, t \in {"VERTEX", "INDEX"}, s2 \in {8, 12} :
         bufs = <<NewGPUBuffer("VERTEX", s1), NewGPUBuffer(t, s2)>>
    /\ appRef = {}
    /\ pbs = [p \in PbIds |-> NoPrimitiveBuffer]
    /\ pbLast = [op |-> "none", pb |-> 0]

NextPbCtor ==
    \E v \in CtorVertexLayoutInputs, x \in IndexInputs :
       PbConstruct([index |-> x, vertexLayout |-> v])

SpecPbCtor == InitPbCtor /\ [][NextPbCtor]_vars

\* The bytes of the buffer a given layout ends up with: its initData if one
\* is allocated for it, else the supplied buffer.
GivenBytes(layout) ==
    IF layout.buffer = 0 THEN layout.dataSize ELSE bufs[layout.buffer].size

\* The element count a given layout resolves to.
Resolved(layout) == layoutElements(GivenBytes(layout), layout.stride)

GivenLayouts == ctorIn.info.vertexLayout

\* Every buffer is a whole number of elements, a supplied vertex buffer is a
\* VERTEX buffer, and the index layout, if any, is one the constructor
\* takes.
ValidlyGiven ==
    /\ \A i \in 1..Len(GivenLayouts) :
          /\ GivenBytes(GivenLayouts[i]) % GivenLayouts[i].stride = 0
          /\ GivenLayouts[i].buffer # 0 =>
                bufs[GivenLayouts[i].buffer].type = "VERTEX"
    /\ ctorIn.info.index.hasIndices =>
          /\ IndexFormatsOk(ctorIn.info.index.formats)
          /\ ctorIn.info.index.buffer # 0 =>
                bufs[ctorIn.info.index.buffer].type = "INDEX"

\* All the given layouts resolve to E.
AllResolveTo(E) ==
    \A i \in 1..Len(GivenLayouts) : Resolved(GivenLayouts[i]) = E

\* The construction succeeded with element count E in every layout.
ConstructedWith(E) ==
    /\ ~fatal /\ pbs[1].state = "alive"
    /\ pbs[1].elements = E
    /\ Len(pbs[1].vertexLayout) = Len(GivenLayouts)
    /\ \A i \in 1..Len(GivenLayouts) : pbs[1].vertexLayout[i].elements = E

ElementCounts == 0..4

(***************************************************************************)
(* C19, as stated: a PrimitiveBuffer info with N >= 1 vertex layouts that  *)
(* all resolve to one element count E, over allocated or validly supplied  *)
(* buffers, is constructed without a fatal error and has element count E.  *)
(***************************************************************************)
C19_SameCountConstructs ==
    \A E \in ElementCounts :
       (/\ ctorIn.kind = "PrimitiveBuffer"
        /\ Len(GivenLayouts) >= 1
        /\ ValidlyGiven
        /\ AllResolveTo(E)) => ConstructedWith(E)

(***************************************************************************)
(* C19, amended: the same for one element count E >= 1; layouts that all   *)
(* resolve to no element at all are rejected.                              *)
(***************************************************************************)
C19_SameNonZeroCountConstructs ==
    \A E \in ElementCounts \ {0} :
       (/\ ctorIn.kind = "PrimitiveBuffer"
        /\ Len(GivenLayouts) >= 1
        /\ ValidlyGiven
        /\ AllResolveTo(E)) => ConstructedWith(E)

\* Two layouts of two elements each, one allocated from 16 bytes at stride 8
\* and one over the supplied buffer 2 at stride 4, were constructed.
C19_Witness ==
    /\ ctorIn.kind = "PrimitiveBuffer"
    /\ Len(GivenLayouts) = 2
    /\ GivenLayouts[1].buffer = 0 /\ GivenLayouts[1].stride = 8
    /\ GivenLayouts[2].buffer = 2 /\ GivenLayouts[2].stride = 4
    /\ ValidlyGiven
    /\ AllResolveTo(2)
    /\ ConstructedWith(2)

(***************************************************************************)
(* C20: the construction of a PrimitiveBuffer ends in a fatal error        *)
(* whenever two of its vertex layouts, allocated or supplied, resolve to   *)
(* different element counts: every later layout must match the first.      *)
(***************************************************************************)
C20_MismatchIsFatal ==
    (/\ ctorIn.kind = "PrimitiveBuffer"
     /\ \E i, j \in 1..Len(GivenLayouts) :
           Resolved(GivenLayouts[i]) # Resolved(GivenLayouts[j])) => fatal

\* A first layout of two elements and a later, allocated one of four, each
\* fine by itself, ended the construction.
C20_Witness ==
    /\ ctorIn.kind = "PrimitiveBuffer"
    /\ Len(GivenLayouts) = 2
    /\ ValidlyGiven
    /\ Resolved(GivenLayouts[1]) = 2
    /\ GivenLayouts[2].buffer = 0 /\ Resolved(GivenLayouts[2]) = 4
    /\ fatal

\* How many of the given vertex layouts name buffer b.
NamedByLayouts(b) ==
    Cardinality({i \in 1..Len(GivenLayouts) : GivenLayouts[i].buffer = b})

(***************************************************************************)
(* C21: the construction of a PrimitiveBuffer given a vertex buffer that   *)
(* is not a VERTEX buffer, or an index buffer that is not an INDEX buffer, *)
(* ends in a fatal error and takes no reference on that buffer: a rejected *)
(* vertex buffer holds none, a rejected index buffer at most the ones its  *)
(* use as a vertex buffer took.                                            *)
(***************************************************************************)
C21_WrongKindIsFatal ==
    ctorIn.kind = "PrimitiveBuffer" =>
       /\ \A i \in 1..Len(GivenLayouts) :
             (/\ GivenLayouts[i].buffer # 0
              /\ bufs[GivenLayouts[i].buffer].type # "VERTEX") =>
                /\ fatal
                /\ bufs[GivenLayouts[i].buffer].refCount = 0
       /\ (/\ ctorIn.info.index.hasIndices
           /\ ctorIn.info.index.buffer # 0
           /\ bufs[ctorIn.info.index.buffer].type # "INDEX") =>
             /\ fatal
             /\ bufs[ctorIn.info.index.buffer].refCount
                   <= NamedByLayouts(ctorIn.info.index.buffer)

\* Buffer 2, a VERTEX buffer, was given as the one vertex layout, which
\* took a reference, and as the index buffer, which was rejected.
C21_Witness ==
    /\ ctorIn.kind = "PrimitiveBuffer"
    /\ Len(GivenLayouts) = 1 /\ GivenLayouts[1].buffer = 2
    /\ GivenLayouts[1].stride = 4
    /\ ctorIn.info.index.hasIndices /\ ctorIn.info.index.buffer = 2
    /\ bufs[2].type = "VERTEX" /\ bufs[2].size = 8
    /\ fatal /\ bufs[2].refCount = 1

\* The buffers the constructed PrimitiveBuffer allocated by itself.
AllocatedBuffers ==
    ({pbs[1].vertexLayout[i].buffer : i \in 1..Len(pbs[1].vertexLayout)}
       \cup {pbs[1].indexBuffer}) \ ({0} \cup ExternalBuffers)

(***************************************************************************)
(* C22: after the construction every vertex or index buffer the            *)
(* PrimitiveBuffer allocated by itself has a reference count of exactly 1, *)
(* the one its destruction releases.                                       *)
(***************************************************************************)
C22_AllocatedHeldOnce ==
    (ctorIn.kind = "PrimitiveBuffer" /\ ~fatal) =>
       \A b \in AllocatedBuffers : bufs[b].refCount = 1

(***************************************************************************)
(* PrimitiveBuffer::matchLayout                                            *)
(***************************************************************************)

\* The outcomes of matchLayout(layout) on a PrimitiveBuffer whose vertex
\* layouts have the given formats, from index i on (1-based): the loop runs
\* over the candidate's length; info.vertexLayout[i] beyond the
\* PrimitiveBuffer's own layouts is a read out of bounds, after which the
\* call may answer either way or fault.
RECURSIVE matchLayoutFrom(_, _, _)
matchLayoutFrom(layout, formats, i) ==
    IF i > Len(layout) THEN {"true"}
    ELSE IF i > Len(formats) THEN {"true", "false", "fault"}
    ELSE IF layout[i] # formats[i] THEN {"false"}
    ELSE matchLayoutFrom(layout, formats, i + 1)

matchLayout(layout, formats) == matchLayoutFrom(layout, formats, 1)

BufferAttributes == {"A1", "A2", "A3"}

\* The formats of the vertex layouts of a constructed PrimitiveBuffer: at
\* least one layout.
VertexFormats == UNION {[1..n -> BufferAttributes] : n \in 1..MaxLayouts}

\* The candidates, up to one entry longer.
CandidateLayouts ==
    UNION {[1..n -> BufferAttributes] : n \in 0..(MaxLayouts + 1)}

MatchLayout(formats, layout) ==
    /\ ~fatal
    /\ \E result \in matchLayout(layout, formats) :
          /\ ctorOut' = [kind |-> "matchLayout", result |-> result]
          /\ fatal' = (result = "fault")
    /\ ctorIn' = [kind |-> "matchLayout", formats |-> formats,
                  layout |-> layout]
    /\ UNCHANGED otherThanCtor

InitMatch ==
    /\ fatal = FALSE
    /\ FbIdle
    /\ PbIdle
    /\ CtxIdle
    /\ CtorIdle
    /\ GlxIdle

NextMatch ==
    \E formats \in VertexFormats, layout \in CandidateLayouts :
       MatchLayout(formats, layout)

SpecMatch == InitMatch /\ [][NextMatch]_vars

(***************************************************************************)
(* C23: matchLayout(candidate) answers true exactly when the candidate has *)
(* as many entries as the PrimitiveBuffer has vertex layouts and equals    *)
(* their formats at every index; it answers false for every other          *)
(* candidate, shorter and longer ones included.                            *)
(***************************************************************************)
C23_MatchLayoutIsEquality ==
    ctorIn.kind = "matchLayout" =>
       ctorOut.result = (IF ctorIn.layout = ctorIn.formats
                         THEN "true" ELSE "false")

(***************************************************************************)
(* C24: the construction of a graphics Pipeline::Info from a binary list   *)
(* and a stage map ends in a fatal error whenever the binary index of some *)
(* stage is not strictly less than the number of binaries.                 *)
(***************************************************************************)
C24_BinaryIndexOutOfRangeIsFatal ==
    (/\ ctorIn.kind = "Info(binaries, stages)"
     /\ \E i \in 1..Len(ctorIn.stages) :
           ctorIn.stages[i].binary >= ctorIn.binaries) => fatal

(***************************************************************************)
(* C25: each of the three graphics constructors of Pipeline::Info ends in  *)
(* a fatal error if any stage given lies above FRAGMENT, such as a         *)
(* compute, mesh or raytracing stage.                                      *)
(***************************************************************************)
C25_StageAboveFragmentIsFatal ==
    /\ (/\ ctorIn.kind = "Info(binaries, stages)"
        /\ \E i \in 1..Len(ctorIn.stages) :
              ctorIn.stages[i].stage > FRAGMENT) => fatal
    /\ (/\ ctorIn.kind \in {"Info(cstages)", "Info(binary, cstages)"}
        /\ \E i \in 1..Len(ctorIn.stages) :
              ctorIn.stages[i] > FRAGMENT) => fatal

\* The single-binary constructor was given a vertex and a mesh stage.
C25_Witness ==
    /\ ctorIn.kind = "Info(binary, cstages)"
    /\ ctorIn.stages = <<VERTEX, MESH_EXT>>
    /\ fatal /\ ctorOut = NoCtor

(***************************************************************************)
(* Commands: cmd::DebugOp (DebugStartRegion, DebugInsertMarker)            *)
(***************************************************************************)

\* template<CommandOp opCode, usz maxStringLength = 64>.
maxStringLength == 64

\* A label is told by its length, str.size(), and by the place of its first
\* '\0' character (1-based; 0 if it has none): a String may hold one.
Labels ==
    {l \in [size : 0..(maxStringLength + 2),
             nul : 0..(maxStringLength + 2)] : l.nul <= l.size}

\* The constructor: fatal if str.size() > maxStringLength.
DebugOpIsFatal(label) == label.size > maxStringLength

\* strlen(string) on the array after string{} and memcpy(string,
\* str.data(), str.size()): up to the label's first '\0'; else up to the
\* zero that follows the label in the array; a label that fills the array
\* leaves no zero in it, and strlen reads on behind the array: it returns
\* maxStringLength or more, or faults.
strlenOutcomes(label) ==
    IF label.nul # 0 THEN {[size |-> label.nul - 1, fault |-> FALSE]}
    ELSE IF label.size < maxStringLength
    THEN {[size |-> label.size, fault |-> FALSE]}
    ELSE {[size |-> maxStringLength, fault |-> FALSE],
          [size |-> 0, fault |-> TRUE]}

\* DebugOp::size(): strlen(string), at most maxStringLength.
DebugOpSize(label) ==
    {[size |-> IF r.size >= maxStringLength THEN maxStringLength
               ELSE r.size,
      fault |-> r.fault] : r \in strlenOutcomes(label)}

DebugOps == {"CMD_DEBUG_START_REGION", "CMD_DEBUG_INSERT_MARKER"}

\* DebugOp(str), and size() of the command built; one command is built.
NewDebugOp(opCode, label) ==
    /\ ~fatal /\ ctorIn = NoCtor
    /\ ctorIn' = [op |-> opCode, kind |-> "DebugOp", label |-> label]
    /\ IF DebugOpIsFatal(label)
       THEN fatal' = TRUE /\ ctorOut' = NoCtor
       ELSE \E r \in DebugOpSize(label) :
               /\ fatal' = r.fault
               /\ ctorOut' = [size |-> r.size, op |-> opCode,
                              kind |-> "DebugOp", fault |-> r.fault,
                              string |-> label]
    /\ UNCHANGED otherThanCtor

InitDebug ==
    /\ fatal = FALSE
    /\ FbIdle
    /\ PbIdle
    /\ CtxIdle
    /\ CtorIdle
    /\ GlxIdle

NextDebug == \E opCode \in DebugOps, label \in Labels : NewDebugOp(opCode, label)

SpecDebug == InitDebug /\ [][NextDebug]_vars

(***************************************************************************)
(* C26: the construction of a debug-label command is fatal if and only if  *)
(* the label is longer than 64 characters; for every accepted label, one   *)
(* of exactly 64 characters included, the command stores the label and     *)
(* size() returns the label's length.                                      *)
(***************************************************************************)
C26_LabelStoredWithItsLength ==
    ctorIn.kind = "DebugOp" =>
       /\ (ctorOut = NoCtor) <=> (ctorIn.label.size > 64)
       /\ ctorOut # NoCtor =>
             /\ ctorOut.string = ctorIn.label
             /\ ~ctorOut.fault
             /\ ctorOut.size = ctorIn.label.size

(***************************************************************************)
(* Commands in a CommandList: cmd::GraphicsObjOp (BindPipeline, ...).      *)
(* Command and CommandList are not part of the sources; they follow the    *)
(* wire format of the specification: a record is the opcode, the u32 byte  *)
(* size of the whole record, and the payload; a list is the records'       *)
(* bytes one after the other, decoded from offset 0.                       *)
(***************************************************************************)

\* sizeof(Command): the opcode and the byte size, four bytes each.
CommandHeaderSize == 8

\* sizeof(BindObject*).
PointerSize == 8

\* The opcodes of the object binds, as numbers.
OpCodeOf(op) ==
    CASE op = "CMD_BIND_PIPELINE" -> 0
      [] op = "CMD_BIND_DESCRIPTORS" -> 1
      [] op = "CMD_BIND_PRIMITIVE_BUFFER" -> 2
      [] op = "CMD_BEGIN_QUERY" -> 3

\* The size is the payload's only.
GraphicsObjOpPayloadSize(opCode, bindObject, size) ==
    [size |-> IF size = 0 THEN PointerSize ELSE size,
     op |-> OpCodeOf(opCode), bindObject |-> bindObject]

\* GraphicsObjOp(bindObject, size = 0):
\* Command(opCode, size == 0 ? sizeof(*this) : size), bindObject(bindObject).
GraphicsObjOp(opCode, bindObject, size) ==
    [size |-> IF size = 0 THEN CommandHeaderSize + PointerSize ELSE size,
     op |-> OpCodeOf(opCode), bindObject |-> bindObject]

\* The n bytes of v, lowest first; the values used are below 2^31.
ToBytes(v, n) ==
    [k \in 1..n |-> IF k <= 4 THEN (v \div (256 ^ (k - 1))) % 256 ELSE 0]

RECURSIVE FromBytes(_)
FromBytes(bytes) ==
    IF bytes = <<>> THEN 0 ELSE Head(bytes) + 256 * FromBytes(Tail(bytes))

\* The bytes of a GraphicsObjOp as it lies in memory.
ObjOpBytes(cmd) ==
    ToBytes(cmd.op, 4) \o ToBytes(cmd.size, 4)
       \o ToBytes(cmd.bindObject, PointerSize)

\* CommandList recording: the command's size bytes are appended.
recordCommand(data, cmd) == data \o SubSeq(ObjOpBytes(cmd), 1, cmd.size)

\* Decoding from an offset on: the header, then the payload seen as a
\* GraphicsObjOp; the next record lies size bytes further.
RECURSIVE decodeFrom(_, _)
decodeFrom(data, offset) ==
    IF offset + CommandHeaderSize > Len(data) THEN <<>>
    ELSE LET size == FromBytes(SubSeq(data, offset + 5, offset + 8)) IN
         IF size < CommandHeaderSize \/ offset + size > Len(data) THEN <<>>
         ELSE <<[size |-> size,
                 op |-> FromBytes(SubSeq(data, offset + 1, offset + 4)),
                 bindObject |->
                    FromBytes(SubSeq(data, offset + CommandHeaderSize + 1,
                                     offset + size))]>>
              \o decodeFrom(data, offset + size)

MaxRecords == 2

ObjOps ==
    {"CMD_BIND_PIPELINE", "CMD_BIND_DESCRIPTORS",
     "CMD_BIND_PRIMITIVE_BUFFER", "CMD_BEGIN_QUERY"}

\* Addresses of objects, the null pointer included.
ObjectPointers == {0, 1, 258, 16909060}

EmptyCommandList ==
    [data |-> <<>>, kind |-> "CommandList", decoded |-> <<>>]

\* A command list is created.
NewCommandList ==
    /\ ~fatal /\ ctorIn = NoCtor
    /\ ctorIn' = [kind |-> "CommandList", recorded |-> <<>>]
    /\ ctorOut' = EmptyCommandList
    /\ UNCHANGED <<fatal, otherThanCtor>>

\* A GraphicsObjOp is built and recorded into the list.
RecordObjOp(opCode, bindObject) ==
    /\ ~fatal /\ ctorIn.kind = "CommandList"
    /\ Len(ctorIn.recorded) < MaxRecords
    /\ ctorIn' = [ctorIn EXCEPT !.recorded =
                     Append(@, [op |-> opCode, bindObject |-> bindObject])]
    /\ ctorOut' = [ctorOut EXCEPT
                     !.data = recordCommand(
                                 @, GraphicsObjOp(opCode, bindObject, 0)),
                     !.decoded = <<>>]
    /\ UNCHANGED <<fatal, otherThanCtor>>

\* The list is decoded from offset 0.
DecodeCommands ==
    /\ ~fatal /\ ctorIn.kind = "CommandList"
    /\ ctorIn.recorded # <<>> /\ ctorOut.decoded = <<>>
    /\ ctorOut' = [ctorOut EXCEPT !.decoded = decodeFrom(ctorOut.data, 0)]
    /\ UNCHANGED <<fatal, ctorIn, otherThanCtor>>

InitRecord ==
    /\ fatal = FALSE
    /\ FbIdle
    /\ PbIdle
    /\ CtxIdle
    /\ CtorIdle
    /\ GlxIdle

NextRecord ==
    \/ NewCommandList
    \/ \E opCode \in ObjOps, bindObject \in ObjectPointers :
          RecordObjOp(opCode, bindObject)
    \/ DecodeCommands

SpecRecord == InitRecord /\ [][NextRecord]_vars

(***************************************************************************)
(* C27: after BindPipeline(p) is recorded into an empty command list, the  *)
(* first record decoded has the opcode BIND_PIPELINE, a byte size that is  *)
(* the whole record's, header included, and a payload pointer equal to p.  *)
(***************************************************************************)
C27_BindPipelineRoundTrip ==
    (/\ ctorIn.kind = "CommandList"
     /\ ctorOut.decoded # <<>>
     /\ ctorIn.recorded[1].op = "CMD_BIND_PIPELINE") =>
       /\ ctorOut.decoded[1].op = OpCodeOf("CMD_BIND_PIPELINE")
       /\ ctorOut.decoded[1].size = CommandHeaderSize + PointerSize
       /\ ctorOut.decoded[1].bindObject = ctorIn.recorded[1].bindObject
       /\ Len(ctorOut.decoded) = Len(ctorIn.recorded)

\* BindPipeline of the object at 16909060 was recorded first, another
\* command after it, and both were decoded.
C27_Witness ==
    /\ ctorIn.kind = "CommandList"
    /\ Len(ctorIn.recorded) = 2
    /\ ctorIn.recorded[1] =
          [op |-> "CMD_BIND_PIPELINE", bindObject |-> 16909060]
    /\ Len(ctorOut.decoded) = 2
    /\ ctorOut.decoded[1].bindObject = 16909060

(***************************************************************************)
(* Descriptor binding, slot by slot: the Descriptors bound last is kept,   *)
(* and textures are bound over several sub-ranges.                         *)
(***************************************************************************)

\* TextureRange: minLevel, levelCount, minLayer, layerCount, subType.
SlotRanges ==
    {<<0, 4, 0, 1, "2D">>, <<1, 3, 0, 1, "2D">>, <<0, 4, 0, 1, "2D_ARRAY">>}

\* Two buffer registers, or two texture registers of which the second may
\* be writable.
SlotLayouts ==
    BufferLayouts
      \cup {<<Register(0, 0, "TEXTURE", FALSE), Register(1, 1, "TEXTURE", w)>> :
               w \in BOOLEAN}

SlotSubs(reg) ==
    IF reg.type # "TEXTURE"
    THEN {NoSubresource, BufferSub("B1", <<0, 16>>)}
            \cup (IF reg.globalId = 0 THEN {BufferSub("B1", <<0, 32>>)}
                  ELSE {})
    ELSE {NoSubresource}
            \cup {TextureSub("T1", r) : r \in SlotRanges}
            \cup (IF reg.globalId = 1
                  THEN {SamplerSub("S1", "T1", r) : r \in SlotRanges}
                          \cup {SamplerSub("S1", Null, <<0, 4, 0, 1, "2D">>)}
                  ELSE {})

SlotInfos ==
    UNION {{[resources |-> [g \in GlobalIds |-> IF g = 0 THEN s0 ELSE s1],
             pipelineLayout |-> l] :
               s0 \in SlotSubs(l[1]), s1 \in SlotSubs(l[2])} :
           l \in SlotLayouts}

\* Thread 1 binds a Descriptors, which is kept.
BindSlots(info) ==
    /\ bindDescriptorsOnThread1(info)
    /\ ctorIn' = [info |-> info, kind |-> "Descriptors"]
    /\ UNCHANGED <<ctorOut, fbVars, pbVars, glxVars>>

InitSlots == InitDesc

NextSlots == \E info \in SlotInfos : BindSlots(info)

SpecSlots == InitSlots /\ [][NextSlots]_vars

\* The Descriptors without the i-th register of its pipeline layout.
WithoutSlot(info, i) ==
    [info EXCEPT !.pipelineLayout =
        SubSeq(@, 1, i - 1) \o SubSeq(@, i + 1, Len(@))]

UnboundSlots(info) ==
    {i \in 1..Len(info.pipelineLayout) :
        info.resources[info.pipelineLayout[i].globalId].resource = Null}

(***************************************************************************)
(* C28: a register of the pipeline layout whose global id has no resource  *)
(* in the Descriptors costs glxBindDescriptors nothing: no error, no       *)
(* native call and no change of the context's cache for it, and the other  *)
(* registers are bound as they are without it: the call does what it does  *)
(* on the layout without that register.                                    *)
(***************************************************************************)
C28_UnboundSlotIsSkipped ==
    [][ ctorIn'.kind = "Descriptors" =>
          \A i \in UnboundSlots(ctorIn'.info) :
             LET r == glxBindDescriptors(getContext(contexts, 1), resources,
                                         WithoutSlot(ctorIn'.info, i))
             IN /\ ~fatal'
                /\ contexts'[1] = r.ctx
                /\ glCalls' = r.calls
                /\ resources' = r.res
                /\ Len(glCalls') <= 2 * (Len(ctorIn'.info.pipelineLayout) - 1)
      ]_vars

\* The first register has no resource and the second a buffer: the one
\* native call is the second's.
C28_Witness ==
    /\ ctorIn.kind = "Descriptors" /\ ~fatal
    /\ UnboundSlots(ctorIn.info) = {1}
    /\ ctorIn.info.resources[1].resource = "B1"
    /\ Len(glCalls) = 1
    /\ glCalls[1].call = "glBindBufferRange" /\ glCalls[1].issued
    /\ contexts[1].boundByBase[glCalls[1].key].handle = 1

\* The sub-ranges over which a Descriptors binds texture t.
BoundRanges(info, t) ==
    {info.resources[g].textureRange :
        g \in {x \in GlobalIds :
                 /\ \E i \in 1..Len(info.pipelineLayout) :
                       info.pipelineLayout[i].globalId = x
                 /\ \/ info.resources[x].resource = t
                    \/ /\ info.resources[x].resource \in Samplers
                       /\ info.resources[x].samplerTexture = t}}

RangesOf(views) == {views[i].range : i \in 1..Len(views)}

(***************************************************************************)
(* C29: over any sequence of descriptor binds a texture holds at most one  *)
(* view per sub-range (mip range, layer range, view type): a bind over a   *)
(* sub-range bound before makes no view, a bind over a sub-range not bound *)
(* before makes exactly one, and the views made earlier stay.              *)
(***************************************************************************)
C29_OneViewPerRange ==
    [][ ctorIn'.kind = "Descriptors" =>
          \A t \in Textures :
             LET old == resources[t].textureViews
                 new == resources'[t].textureViews
             IN /\ \A i, j \in 1..Len(new) :
                      (new[i].range = new[j].range \/ new[i].view = new[j].view)
                         => i = j
                /\ Len(new) = Len(old)
                     + Cardinality(BoundRanges(ctorIn'.info, t)
                                      \ RangesOf(old))
                /\ SubSeq(new, 1, Len(old)) = old
      ]_vars

\* Texture T1 has a view for each of the three sub-ranges, the last bind
\* having gone over two sub-ranges of which one was bound before.
C29_Witness ==
    /\ ctorIn.kind = "Descriptors" /\ ~fatal /\ submits >= 2
    /\ Len(resources["T1"].textureViews) = 3
    /\ Cardinality(BoundRanges(ctorIn.info, "T1")) = 2
    /\ resources["T1"].textureViews[1].range \in BoundRanges(ctorIn.info, "T1")
    /\ resources["T1"].textureViews[3].range \in BoundRanges(ctorIn.info, "T1")

(***************************************************************************)
(* C30: the context of a thread is only modified by that thread: no step,  *)
(* the destruction of a resource object included, changes the context of   *)
(* a thread other than the one that performs it; so no step changes the    *)
(* contexts of two threads, and a step of thread t changes t's at most.    *)
(***************************************************************************)
C30_OnlyOwnContext ==
    [][ /\ Cardinality({t \in Threads : contexts'[t] # contexts[t]}) <= 1
        /\ ctxLast'.thread \in Threads =>
              \A t \in Threads \ {ctxLast'.thread} :
                 contexts'[t] = contexts[t]
      ]_vars

(***************************************************************************)
(* glxBindPipeline: the rasterizer and blend state a pipeline asks for,    *)
(* diffed against the context's snapshot (currRaster, currBlend)           *)
(***************************************************************************)

\* CullMode, WindMode and FillMode are declared but not defined in the
\* sources; the code tells that the cull mode whose u8 value is zero means
\* no culling, and that each has the two values it maps to a native enum.
CullModes == {"NONE", "BACK", "FRONT"}

WindModes == {"CCW", "CW"}

FillModes == {"FILL", "LINE"}

\* u8(cull): non-zero for BACK and FRONT.
cullOn(cull) == cull # "NONE"

\* BlendState::WriteMask, the value of each flag.
WriteMaskR == 1

WriteMaskB == 2

WriteMaskG == 4

WriteMaskA == 8

WriteMaskALL == 15

\* u8(mask) & flag, converted to GLboolean: non-zero is true.
maskBit(mask, flag) == (mask \div flag) % 2 = 1

\* Rasterizer(cull, fill, wind)
Rasterizer(cull, fill, wind) == [cull |-> cull, fill |-> fill, winding |-> wind]

\* BlendState(blendEnable, blendOp, srcBlend, dstBlend, alphaBlendOp,
\* alphaSrcBlend, alphaDstBlend, writeMask, logicOp, blendFactor)
BlendState(en, op, src, dst, aop, asrc, adst, mask, logicOp, factor) ==
    [logicOp |-> logicOp, blendFactor |-> factor, writeMask |-> mask,
     blendOp |-> op, alphaBlendOp |-> aop, srcBlend |-> src, dstBlend |-> dst,
     alphaSrcBlend |-> asrc, alphaDstBlend |-> adst, blendEnable |-> en]

\* BlendState::alphaBlend(mask, logicOp)
alphaBlend(mask, logicOp) ==
    BlendState(TRUE, "ADD", "ONE", "SRC_ALPHA_REV", "ADD", "ONE",
               "SRC_ALPHA_REV", mask, logicOp, <<0, 0, 0, 0>>)

\* BlendState::subpixelAlphaBlend(mask, logicOp)
subpixelAlphaBlend(mask, logicOp) ==
    BlendState(TRUE, "ADD", "SRC1", "SRC1_REV", "ADD", "SRC1_ALPHA",
               "SRC1_ALPHA_REV", mask, logicOp, <<0, 0, 0, 0>>)

\* MSAA(samples, minSampleShading); the f32 is kept in hundredths.
MSAA(samples, minSampleShading) ==
    [samples |-> samples, minSampleShading |-> minSampleShading]

\* glxLogicOp, glxBlendOp, glxBlend: the native enum of each value (of the
\* values the inputs use).
glxLogicOp(logicOp) ==
    CASE logicOp = "NO_OP" -> "GL_NOOP"
      [] logicOp = "XOR" -> "GL_XOR"
      [] logicOp = "COPY" -> "GL_COPY"

glxBlendOp(blendOp) ==
    CASE blendOp = "ADD" -> "GL_FUNC_ADD"
      [] blendOp = "SUBTRACT" -> "GL_FUNC_SUBTRACT"
      [] blendOp = "MAX" -> "GL_MAX"

glxBlend(blend) ==
    CASE blend = "ZERO" -> "GL_ZERO"
      [] blend = "ONE" -> "GL_ONE"
      [] blend = "SRC_ALPHA" -> "GL_SRC_ALPHA"
      [] blend = "SRC_ALPHA_REV" -> "GL_ONE_MINUS_SRC_ALPHA"
      [] blend = "FACTOR" -> "GL_CONSTANT_COLOR"
      [] blend = "SRC1" -> "GL_SRC1_COLOR"
      [] blend = "SRC1_REV" -> "GL_ONE_MINUS_SRC1_COLOR"
      [] blend = "SRC1_ALPHA" -> "GL_SRC1_ALPHA"
      [] blend = "SRC1_ALPHA_REV" -> "GL_ONE_MINUS_SRC1_ALPHA"

\* A native call and its arguments.
glCall(call, args) == [call |-> call, args |-> args]

\* The call is issued: it is logged and the driver's state `field' takes
\* the value the call sets.
issue(s, call, args, field, value) ==
    [s EXCEPT !.calls = Append(@, glCall(call, args)),
              !.driver[field] = value]

\* if (r0.cull != r.cull) { ... r0.cull = r.cull; }
bindCull(s, r) ==
    LET r0 == s.ctx.currRaster IN
    IF r0.cull = r.cull THEN s
    ELSE
      LET a == IF cullOn(r0.cull) /\ ~cullOn(r.cull)
               THEN issue(s, "glDisable", <<"GL_CULL_FACE">>, "cullFace", FALSE)
               ELSE s
          b == IF ~cullOn(r0.cull) /\ cullOn(r.cull)
               THEN issue(a, "glEnable", <<"GL_CULL_FACE">>, "cullFace", TRUE)
               ELSE a
          mode == IF r.cull = "BACK" THEN "GL_BACK" ELSE "GL_FRONT"
          c == IF cullOn(r.cull)
               THEN issue(b, "glCullFace", <<mode>>, "cullFaceMode", mode)
               ELSE b
      IN [c EXCEPT !.ctx.currRaster.cull = r.cull]

\* A plausible slip: the winding is not compared with the snapshot.
windingDiffersAlways(r0, r) == cullOn(r.cull)

\* r0.winding != r.winding && u8(r.cull)
windingDiffers(r0, r) == r0.winding # r.winding /\ cullOn(r.cull)

\* if (r0.winding != r.winding && u8(r.cull)) { glFrontFace; r0.winding = .. }
bindWinding(s, r) ==
    IF windingDiffers(s.ctx.currRaster, r)
    THEN LET face == IF r.winding = "CCW" THEN "GL_CCW" ELSE "GL_CW" IN
         [issue(s, "glFrontFace", <<face>>, "frontFace", face)
            EXCEPT !.ctx.currRaster.winding = r.winding]
    ELSE s

\* if (r0.fill != r.fill) { glPolygonMode; r0.fill = r.fill; }
bindFill(s, r) ==
    IF s.ctx.currRaster.fill # r.fill
    THEN LET mode == IF r.fill = "FILL" THEN "GL_FILL" ELSE "GL_LINE" IN
         [issue(s, "glPolygonMode", <<"GL_FRONT_AND_BACK", mode>>,
                "polygonMode", mode)
            EXCEPT !.ctx.currRaster.fill = r.fill]
    ELSE s

\* glColorMask(red, green, blue, alpha) as the code calls it:
\* glColorMask(u8(m) & 1, u8(m) & 2, u8(m) & 4, u8(m) & 8).
colorMaskArgs(mask) ==
    <<maskBit(mask, 1), maskBit(mask, 2), maskBit(mask, 4), maskBit(mask, 8)>>

\* if (b0.writeMask != b.writeMask) { glColorMask; b0.writeMask = .. }
bindWriteMask(s, b) ==
    IF s.ctx.currBlend.writeMask # b.writeMask
    THEN LET a == colorMaskArgs(b.writeMask) IN
         [issue(s, "glColorMask", a, "colorMask",
                [red |-> a[1], green |-> a[2], blue |-> a[3], alpha |-> a[4]])
            EXCEPT !.ctx.currBlend.writeMask = b.writeMask]
    ELSE s

\* The sample shading block (msaa.samples && msaa.minSampleShading).
bindSampleShading(s, msaa) ==
    IF msaa.samples # 0 /\ msaa.minSampleShading # 0
    THEN LET a == IF ~s.ctx.enableMinSampleShading
                  THEN [issue(s, "glEnable", <<"GL_SAMPLE_SHADING">>,
                              "sampleShading", TRUE)
                          EXCEPT !.ctx.enableMinSampleShading = TRUE]
                  ELSE s
         IN IF a.ctx.minSampleShading # msaa.minSampleShading
            THEN [issue(a, "glMinSampleShading", <<msaa.minSampleShading>>,
                        "minSampleShading", msaa.minSampleShading)
                    EXCEPT !.ctx.minSampleShading = msaa.minSampleShading]
            ELSE a
    ELSE IF s.ctx.enableMinSampleShading
    THEN [issue(s, "glDisable", <<"GL_SAMPLE_SHADING">>,
                "sampleShading", FALSE)
            EXCEPT !.ctx.enableMinSampleShading = FALSE]
    ELSE s

\* if (b0.blendEnable != b.blendEnable) { glEnable/glDisable(GL_BLEND); .. }
bindBlendEnable(s, b) ==
    IF s.ctx.currBlend.blendEnable # b.blendEnable
    THEN [issue(s, IF b.blendEnable THEN "glEnable" ELSE "glDisable",
                <<"GL_BLEND">>, "blend", b.blendEnable)
            EXCEPT !.ctx.currBlend.blendEnable = b.blendEnable]
    ELSE s

\* glBlendColor, when the constant differs.
bindBlendFactor(s, b) ==
    IF s.ctx.currBlend.blendFactor # b.blendFactor
    THEN [issue(s, "glBlendColor", b.blendFactor, "blendColor", b.blendFactor)
            EXCEPT !.ctx.currBlend.blendFactor = b.blendFactor]
    ELSE s

\* glLogicOp, when the logic op differs.
bindLogicOp(s, b) ==
    IF s.ctx.currBlend.logicOp # b.logicOp
    THEN [issue(s, "glLogicOp", <<glxLogicOp(b.logicOp)>>,
                "logicOp", glxLogicOp(b.logicOp))
            EXCEPT !.ctx.currBlend.logicOp = b.logicOp]
    ELSE s

\* glBlendEquationSeparate, when either blend op differs.
bindBlendOp(s, b) ==
    LET b0 == s.ctx.currBlend IN
    IF b0.alphaBlendOp # b.alphaBlendOp \/ b0.blendOp # b.blendOp
    THEN LET a == <<glxBlendOp(b.blendOp), glxBlendOp(b.alphaBlendOp)>> IN
         [issue(s, "glBlendEquationSeparate", a, "blendEquation", a)
            EXCEPT !.ctx.currBlend.alphaBlendOp = b.alphaBlendOp,
                   !.ctx.currBlend.blendOp = b.blendOp]
    ELSE s

\* glBlendFuncSeparate, when any of the four factors differs.
bindBlendFunc(s, b) ==
    LET b0 == s.ctx.currBlend IN
    IF \/ b0.srcBlend # b.srcBlend \/ b0.dstBlend # b.dstBlend
       \/ b0.alphaSrcBlend # b.alphaSrcBlend
       \/ b0.alphaDstBlend # b.alphaDstBlend
    THEN LET a == <<glxBlend(b.srcBlend), glxBlend(b.dstBlend),
                    glxBlend(b.alphaSrcBlend), glxBlend(b.alphaDstBlend)>> IN
         [issue(s, "glBlendFuncSeparate", a, "blendFunc", a)
            EXCEPT !.ctx.currBlend.srcBlend = b.srcBlend,
                   !.ctx.currBlend.dstBlend = b.dstBlend,
                   !.ctx.currBlend.alphaSrcBlend = b.alphaSrcBlend,
                   !.ctx.currBlend.alphaDstBlend = b.alphaDstBlend]
    ELSE s

\* if (b0.blendEnable) { ... }: b0 is the snapshot just updated.
bindBlendState(s, b) ==
    IF s.ctx.currBlend.blendEnable
    THEN bindBlendFunc(bindBlendOp(bindLogicOp(bindBlendFactor(s, b), b), b), b)
    ELSE s

\* glxBindPipeline(ctx, pipeline), the whole function: the context and the
\* driver afterwards and the native calls in the order they were issued.
glxBindPipeline(ctx, drv, pipeline) ==
    LET r == pipeline.info.rasterizer
        b == pipeline.info.blendState
        s0 == issue([driver |-> drv, ctx |-> ctx, calls |-> <<>>],
                    "glUseProgram", <<pipeline.handle>>,
                    "program", pipeline.handle)
        s1 == bindWriteMask(bindFill(bindWinding(bindCull(s0, r), r), r), b)
        s2 == bindSampleShading(s1, pipeline.info.msaa)
    IN bindBlendState(bindBlendEnable(s2, b), b)

\* ---- the inputs

Rasterizers ==
    {Rasterizer(c, f, w) : c \in CullModes, f \in FillModes, w \in WindModes}

\* BlendState(): the defaults of the constructor.
DefaultBlendState ==
    BlendState(FALSE, "ADD", "ZERO", "ONE", "ADD", "ZERO", "ONE",
               WriteMaskALL, "NO_OP", <<0, 0, 0, 0>>)

\* The default, the two helpers, a blend state that differs from them in
\* every field, and one that has blending off but differs from the default
\* in the write mask, the logic op and the constant.
BlendStates ==
    {DefaultBlendState,
     alphaBlend(WriteMaskALL, "NO_OP"),
     subpixelAlphaBlend(WriteMaskG, "XOR"),
     BlendState(TRUE, "SUBTRACT", "FACTOR", "ONE", "MAX", "SRC_ALPHA", "ZERO",
                WriteMaskR + WriteMaskB, "COPY", <<1, 0, 0, 1>>),
     [DefaultBlendState EXCEPT !.writeMask = WriteMaskB, !.logicOp = "XOR",
                               !.blendFactor = <<1, 0, 0, 1>>]}

\* MSAA(): one sample, no sample shading; and four samples at 0.5.
MSAAs == {MSAA(1, 0), MSAA(4, 50)}

\* The pipelines bound: the program name and the state of Pipeline::Info
\* that glxBindPipeline reads.
PipelineOf(r, b, m) ==
    [info |-> [msaa |-> m, rasterizer |-> r, blendState |-> b], handle |-> 1]

\* Every rasterizer with the default blend state, every blend state with
\* the default rasterizer, and every blend state with a rasterizer that
\* differs from the default in each field.
PipelineInputs ==
    {PipelineOf(r, DefaultBlendState, MSAA(1, 0)) : r \in Rasterizers}
      \cup {PipelineOf(Rasterizer("BACK", "FILL", "CCW"), b, m) :
               b \in BlendStates, m \in MSAAs}
      \cup {PipelineOf(Rasterizer("FRONT", "LINE", "CW"), b, MSAA(4, 50)) :
               b \in BlendStates}

\* The snapshot of a new context: a default Rasterizer and BlendState, no
\* sample shading.
NewPipelineContext ==
    [minSampleShading |-> 0,
     currRaster |-> Rasterizer("BACK", "FILL", "CCW"),
     currBlend |-> DefaultBlendState,
     enableMinSampleShading |-> FALSE]

\* The state of a new native context, as far as glxBindPipeline sets it.
NewPipelineDriver ==
    [logicOp |-> "GL_COPY", minSampleShading |-> 0, blend |-> FALSE,
     program |-> 0, cullFace |-> FALSE, cullFaceMode |-> "GL_BACK",
     frontFace |-> "GL_CCW", polygonMode |-> "GL_FILL",
     colorMask |-> [red |-> TRUE, green |-> TRUE, blue |-> TRUE,
                    alpha |-> TRUE],
     sampleShading |-> FALSE, blendColor |-> <<0, 0, 0, 0>>,
     blendEquation |-> <<"GL_FUNC_ADD", "GL_FUNC_ADD">>,
     blendFunc |-> <<"GL_ONE", "GL_ZERO", "GL_ONE", "GL_ZERO">>]

\* A BindPipeline command runs on the context: glxBindPipeline(ctx, p).
BindPipeline(p) ==
    /\ ~fatal
    /\ LET r == glxBindPipeline(glx, driver, p)
       IN /\ glx' = r.ctx
          /\ driver' = r.driver
          /\ glxLast' = [op |-> "bindPipeline", pipeline |-> p,
                         calls |-> r.calls]
    /\ UNCHANGED <<fatal, otherThanGlx>>

InitPipe ==
    /\ fatal = FALSE
    /\ FbIdle
    /\ PbIdle
    /\ CtxIdle
    /\ ctorIn = NoCtor /\ ctorOut = NoCtor
    /\ glx = NewPipelineContext
    /\ driver = NewPipelineDriver
    /\ glxLast = NoGlx

NextPipe == \E p \in PipelineInputs : BindPipeline(p)

SpecPipe == InitPipe /\ [][NextPipe]_vars

\* The positions of the calls of one native function.
CallsOf(calls, name) == {i \in 1..Len(calls) : calls[i].call = name}

\* The positions of glEnable(target) and glDisable(target).
SwitchesOf(calls, target) ==
    {i \in CallsOf(calls, "glEnable") \cup CallsOf(calls, "glDisable") :
       calls[i].args = <<target>>}

CullCalls(calls) ==
    SwitchesOf(calls, "GL_CULL_FACE") \cup CallsOf(calls, "glCullFace")

\* The rasterizer and blend calls of glxBindPipeline.
RasterBlendCalls(calls) ==
    CullCalls(calls) \cup CallsOf(calls, "glFrontFace")
      \cup CallsOf(calls, "glPolygonMode") \cup CallsOf(calls, "glColorMask")
      \cup SwitchesOf(calls, "GL_BLEND") \cup CallsOf(calls, "glBlendColor")
      \cup CallsOf(calls, "glLogicOp")
      \cup CallsOf(calls, "glBlendEquationSeparate")
      \cup CallsOf(calls, "glBlendFuncSeparate")

(***************************************************************************)
(* C31: over any sequence of pipeline binds on a context, glxBindPipeline  *)
(* issues a rasterizer or blend call (cull, winding, fill, write mask,     *)
(* blend enable, blend constant, logic op, blend equation, blend function) *)
(* only if the pipeline's field differs from the context's snapshot, after *)
(* such a call the snapshot field is the value given to the driver, and a  *)
(* second bind of the same pipeline in succession issues none of them.     *)
(***************************************************************************)
C31_OnlyChangedFieldsAreSet ==
    [][ glxLast'.op = "bindPipeline" =>
          LET r == glxLast'.pipeline.info.rasterizer
              b == glxLast'.pipeline.info.blendState
              r0 == glx.currRaster
              b0 == glx.currBlend
              r1 == glx'.currRaster
              b1 == glx'.currBlend
              calls == glxLast'.calls
              OnlyIf(issued, differs, applied) ==
                  issued # {} => (differs /\ applied)
          IN /\ OnlyIf(CullCalls(calls), r0.cull # r.cull, r1.cull = r.cull)
             /\ \A i \in CallsOf(calls, "glCullFace") :
                  /\ calls[i].args
                       = <<IF r1.cull = "BACK" THEN "GL_BACK" ELSE "GL_FRONT">>
                  /\ driver'.cullFaceMode = calls[i].args[1]
             /\ driver'.cullFace # driver.cullFace => driver'.cullFace = cullOn(r1.cull)
             /\ OnlyIf(CallsOf(calls, "glFrontFace"),
                       r0.winding # r.winding, r1.winding = r.winding)
             /\ \A i \in CallsOf(calls, "glFrontFace") :
                  calls[i].args
                    = <<IF r1.winding = "CCW" THEN "GL_CCW" ELSE "GL_CW">>
             /\ OnlyIf(CallsOf(calls, "glPolygonMode"),
                       r0.fill # r.fill, r1.fill = r.fill)
             /\ \A i \in CallsOf(calls, "glPolygonMode") :
                  calls[i].args[2]
                    = (IF r1.fill = "FILL" THEN "GL_FILL" ELSE "GL_LINE")
             /\ OnlyIf(CallsOf(calls, "glColorMask"),
                       b0.writeMask # b.writeMask, b1.writeMask = b.writeMask)
             /\ OnlyIf(SwitchesOf(calls, "GL_BLEND"),
                       b0.blendEnable # b.blendEnable,
                       b1.blendEnable = b.blendEnable
                         /\ driver'.blend = b1.blendEnable)
             /\ OnlyIf(CallsOf(calls, "glBlendColor"),
                       b0.blendFactor # b.blendFactor,
                       b1.blendFactor = b.blendFactor
                         /\ driver'.blendColor = b1.blendFactor)
             /\ OnlyIf(CallsOf(calls, "glLogicOp"),
                       b0.logicOp # b.logicOp,
                       b1.logicOp = b.logicOp
                         /\ driver'.logicOp = glxLogicOp(b1.logicOp))
             /\ OnlyIf(CallsOf(calls, "glBlendEquationSeparate"),
                       b0.blendOp # b.blendOp
                         \/ b0.alphaBlendOp # b.alphaBlendOp,
                       /\ b1.blendOp = b.blendOp
                       /\ b1.alphaBlendOp = b.alphaBlendOp
                       /\ driver'.blendEquation
                            = <<glxBlendOp(b1.blendOp),
                                glxBlendOp(b1.alphaBlendOp)>>)
             /\ OnlyIf(CallsOf(calls, "glBlendFuncSeparate"),
                       \/ b0.srcBlend # b.srcBlend
                       \/ b0.dstBlend # b.dstBlend
                       \/ b0.alphaSrcBlend # b.alphaSrcBlend
                       \/ b0.alphaDstBlend # b.alphaDstBlend,
                       /\ b1.srcBlend = b.srcBlend
                       /\ b1.dstBlend = b.dstBlend
                       /\ b1.alphaSrcBlend = b.alphaSrcBlend
                       /\ b1.alphaDstBlend = b.alphaDstBlend
                       /\ driver'.blendFunc
                            = <<glxBlend(b1.srcBlend), glxBlend(b1.dstBlend),
                                glxBlend(b1.alphaSrcBlend),
                                glxBlend(b1.alphaDstBlend)>>)
             /\ (glxLast.op = "bindPipeline"
                   /\ glxLast.pipeline = glxLast'.pipeline)
                  => RasterBlendCalls(calls) = {}
      ]_vars

\* A pipeline that differs from the defaults in every rasterizer and blend
\* field was bound when the snapshot already held its state: the bind
\* issued glUseProgram and nothing else.
C31_Witness ==
    /\ glxLast.op = "bindPipeline"
    /\ glxLast.pipeline.info.rasterizer = Rasterizer("FRONT", "LINE", "CW")
    /\ glxLast.pipeline.info.blendState.blendEnable
    /\ glxLast.pipeline.info.blendState.writeMask = WriteMaskR + WriteMaskB
    /\ glx.currRaster = glxLast.pipeline.info.rasterizer
    /\ glx.currBlend = glxLast.pipeline.info.blendState
    /\ driver.cullFaceMode = "GL_FRONT" /\ driver.blend
    /\ Len(glxLast.calls) = 1

(***************************************************************************)
(* C37: the color write mask glxBindPipeline applies enables exactly the   *)
(* channels named in the pipeline's WriteMask: after a bind that called    *)
(* glColorMask the driver's red, green, blue and alpha write enables are   *)
(* set if and only if the R, G, B and A flags of the mask are set.         *)
(***************************************************************************)
C37_WriteMaskChannels ==
    (glxLast.op = "bindPipeline"
       /\ CallsOf(glxLast.calls, "glColorMask") # {}) =>
      LET mask == glxLast.pipeline.info.blendState.writeMask
      IN /\ driver.colorMask.red = maskBit(mask, WriteMaskR)
         /\ driver.colorMask.green = maskBit(mask, WriteMaskG)
         /\ driver.colorMask.blue = maskBit(mask, WriteMaskB)
         /\ driver.colorMask.alpha = maskBit(mask, WriteMaskA)

(***************************************************************************)
(* glxSetViewport, glxSetScissor, glxSetViewportAndScissor: the cached     *)
(* rectangles and the scissor test, with the driver behind the cache       *)
(***************************************************************************)

\* The size the two functions go on with: the one given, or, when a
\* component of it is zero, the size of the bound framebuffer. Without a
\* bound framebuffer the oicAssert fails; where the assertion is compiled
\* out the size is read through a null pointer. `wild' is what then
\* happens: <<0, 0>> for the process ending there, else the size read.
sizeOrFramebuffer(ctx, size, wild) ==
    IF size[1] # 0 /\ size[2] # 0 THEN size
    ELSE IF ctx.currentFramebuffer # Null
    THEN SurfaceSize(ctx.currentFramebuffer)
    ELSE wild

\* glxSetViewport(ctx, size, offset) on the context and the driver.
setViewport(s, size, offset, wild) ==
    LET sz == sizeOrFramebuffer(s.ctx, size, wild) IN
    IF sz = <<0, 0>> THEN [s EXCEPT !.failed = TRUE]
    ELSE IF s.ctx.viewportOff # offset \/ s.ctx.viewportSize # sz
    THEN [issue(s, "glViewport", <<offset[1], offset[2], sz[1], sz[2]>>,
                "viewport", <<offset, sz>>)
            EXCEPT !.ctx.viewportOff = offset, !.ctx.viewportSize = sz]
    ELSE s

\* A plausible slip: the test is enabled but the flag is not set.
scissorOnKeepsFlag(s) ==
    IF ~s.ctx.enableScissor
    THEN issue(s, "glEnable", <<"GL_SCISSOR_TEST">>, "scissorTest", TRUE)
    ELSE s

\* if (!ctx.enableScissor) { glEnable(GL_SCISSOR_TEST); .. = true; }
scissorOn(s) ==
    IF ~s.ctx.enableScissor
    THEN [issue(s, "glEnable", <<"GL_SCISSOR_TEST">>, "scissorTest", TRUE)
            EXCEPT !.ctx.enableScissor = TRUE]
    ELSE s

\* if (ctx.enableScissor) { glDisable(GL_SCISSOR_TEST); .. = false; }
scissorOff(s) ==
    IF s.ctx.enableScissor
    THEN [issue(s, "glDisable", <<"GL_SCISSOR_TEST">>, "scissorTest", FALSE)
            EXCEPT !.ctx.enableScissor = FALSE]
    ELSE s

\* glxSetScissor(ctx, size, offset) on the context and the driver.
setScissor(s, size, offset, wild) ==
    LET sz == sizeOrFramebuffer(s.ctx, size, wild) IN
    IF sz = <<0, 0>> THEN [s EXCEPT !.failed = TRUE]
    ELSE LET a == scissorOn(s) IN
         IF a.ctx.scissorOff # offset \/ a.ctx.scissorSize # sz
         THEN [issue(a, "glScissor", <<offset[1], offset[2], sz[1], sz[2]>>,
                     "scissor", <<offset, sz>>)
                 EXCEPT !.ctx.scissorOff = offset, !.ctx.scissorSize = sz]
         ELSE a

\* glxSetViewportAndScissor(ctx, size, offset) on the context and the driver.
setViewportAndScissor(s, size, offset, wild) ==
    setViewport(scissorOff(s), size, offset, wild)

\* ---- the inputs

RectSizes == {<<0, 0>>, <<4, 4>>, <<2, 2>>, <<0, 2>>}

RectOffsets == {<<0, 0>>, <<1, 1>>}

\* What a read through the null framebuffer pointer gives.
WildSizes == {<<0, 0>>, <<4, 4>>}

RectOps == {"setViewport", "setScissor", "setViewportAndScissor"}

\* The rectangles of a new context; currentFramebuffer is the framebuffer
\* of the render pass the commands run in, if any.
NewRectContext(framebuffer) ==
    [viewportSize |-> <<0, 0>>, currentFramebuffer |-> framebuffer,
     viewportOff |-> <<0, 0>>, enableScissor |-> FALSE,
     scissorOff |-> <<0, 0>>, scissorSize |-> <<0, 0>>]

\* The native state behind it: the scissor test is off in a new context.
NewRectDriver ==
    [scissorTest |-> FALSE, viewport |-> <<<<0, 0>>, <<0, 0>>>>,
     scissor |-> <<<<0, 0>>, <<0, 0>>>>]

\* A SetViewport, SetScissor or SetViewportAndScissor command runs.
SetRect(op, size, offset, wild) ==
    /\ ~fatal
    /\ LET s == [driver |-> driver, failed |-> FALSE, ctx |-> glx,
                 calls |-> <<>>]
           r == CASE op = "setViewport" -> setViewport(s, size, offset, wild)
                  [] op = "setScissor" -> setScissor(s, size, offset, wild)
                  [] op = "setViewportAndScissor" ->
                       setViewportAndScissor(s, size, offset, wild)
       IN /\ glx' = r.ctx
          /\ driver' = r.driver
          /\ fatal' = r.failed
          /\ glxLast' = [size |-> size, op |-> op, offset |-> offset,
                         calls |-> r.calls]
    /\ UNCHANGED otherThanGlx

InitRect ==
    /\ fatal = FALSE
    /\ FbIdle
    /\ PbIdle
    /\ CtxIdle
    /\ ctorIn = NoCtor /\ ctorOut = NoCtor
    /\ glx \in {NewRectContext(f) : f \in {Null, "F1", "F2"}}
    /\ driver = NewRectDriver
    /\ glxLast = NoGlx

NextRect ==
    \E op \in RectOps, size \in RectSizes, offset \in RectOffsets,
       wild \in WildSizes : SetRect(op, size, offset, wild)

SpecRect == InitRect /\ [][NextRect]_vars

(***************************************************************************)
(* C36: across any sequence of SetScissor, SetViewport and                 *)
(* SetViewportAndScissor the cached enableScissor flag is the driver's     *)
(* scissor test state; SetScissor enables the test only when it is         *)
(* disabled, SetViewportAndScissor disables it only when it is enabled,    *)
(* SetViewport never changes it, and glViewport / glScissor are issued     *)
(* only when the offset or size differs from the cached rectangle.         *)
(***************************************************************************)
C36_ScissorFlagMatchesDriver ==
    [][ glxLast'.op \in RectOps =>
          LET calls == glxLast'.calls
              switches == SwitchesOf(calls, "GL_SCISSOR_TEST")
          IN /\ glx.enableScissor = driver.scissorTest
             /\ glx'.enableScissor = driver'.scissorTest
             /\ \A i \in switches :
                  \/ /\ glxLast'.op = "setScissor"
                     /\ calls[i].call = "glEnable" /\ ~glx.enableScissor
                  \/ /\ glxLast'.op = "setViewportAndScissor"
                     /\ calls[i].call = "glDisable" /\ glx.enableScissor
             /\ Cardinality(switches) <= 1
             /\ (glxLast'.op = "setScissor" /\ ~fatal')
                  => (glx'.enableScissor /\ (switches # {} <=> ~glx.enableScissor))
             /\ glxLast'.op = "setViewportAndScissor"
                  => (~glx'.enableScissor /\ (switches # {} <=> glx.enableScissor))
             /\ glxLast'.op = "setViewport"
                  => glx'.enableScissor = glx.enableScissor
             /\ \A i \in CallsOf(calls, "glViewport") :
                  /\ <<glx.viewportOff, glx.viewportSize>>
                       # <<glx'.viewportOff, glx'.viewportSize>>
                  /\ glx'.viewportOff = glxLast'.offset
                  /\ calls[i].args
                       = glx'.viewportOff \o glx'.viewportSize
             /\ \A i \in CallsOf(calls, "glScissor") :
                  /\ <<glx.scissorOff, glx.scissorSize>>
                       # <<glx'.scissorOff, glx'.scissorSize>>
                  /\ glx'.scissorOff = glxLast'.offset
                  /\ calls[i].args = glx'.scissorOff \o glx'.scissorSize
      ]_vars

\* SetViewportAndScissor ran with the test enabled and with the viewport
\* the cache already held: it disabled the test and issued no glViewport.
C36_Witness ==
    /\ glxLast.op = "setViewportAndScissor" /\ ~fatal
    /\ glxLast.calls = <<glCall("glDisable", <<"GL_SCISSOR_TEST">>)>>
    /\ ~glx.enableScissor /\ ~driver.scissorTest
    /\ glx.scissorSize = <<2, 2>> /\ glx.viewportSize = <<4, 4>>
    /\ driver.viewport = <<<<1, 1>>, <<4, 4>>>>

(***************************************************************************)
(* Graphics::Data::bind: the cache of native bindings                      *)
(***************************************************************************)

\* A plausible slip: a target the cache has no entry for is never bound.
bindNeededIfCached(bound, where, what) ==
    where \in DOMAIN bound /\ bound[where] # what

\* it == bound.end() || it->second != what
bindNeeded(bound, where, what) ==
    where \notin DOMAIN bound \/ bound[where] # what

\* bound[where] = what on the std::unordered_map.
boundPut(bound, where, what) ==
    [k \in DOMAIN bound \cup {where} |->
       IF k = where THEN what ELSE bound[k]]

\* Data::bind(bindFunc, where, what); s.ctx is the map `bound'.
bind(s, bindFunc, where, what) ==
    IF bindNeeded(s.ctx, where, what)
    THEN [issue(s, bindFunc, <<where, what>>, where, what)
            EXCEPT !.ctx = boundPut(s.ctx, where, what)]
    ELSE s

\* ---- the inputs

BindFuncs == {"glBindBuffer", "glBindTexture"}

BindTargets == {"GL_ARRAY_BUFFER", "GL_UNIFORM_BUFFER", "GL_TEXTURE_2D"}

BindNames == 0..2

\* A Bind of `what' to `where' through Data::bind.
Bind(bindFunc, where, what) ==
    /\ ~fatal
    /\ LET r == bind([driver |-> driver, ctx |-> glx, calls |-> <<>>],
                     bindFunc, where, what)
       IN /\ glx' = r.ctx
          /\ driver' = r.driver
          /\ glxLast' = [op |-> "bind", calls |-> r.calls, where |-> where,
                         what |-> what, bindFunc |-> bindFunc]
    /\ UNCHANGED <<fatal, otherThanGlx>>

\* The map is empty after construction; nothing is bound in the driver.
InitBind ==
    /\ fatal = FALSE
    /\ FbIdle
    /\ PbIdle
    /\ CtxIdle
    /\ ctorIn = NoCtor /\ ctorOut = NoCtor
    /\ glx = <<>>
    /\ driver = [w \in BindTargets |-> 0]
    /\ glxLast = NoGlx

NextBind ==
    \E bindFunc \in BindFuncs, where \in BindTargets, what \in BindNames :
       Bind(bindFunc, where, what)

SpecBind == InitBind /\ [][NextBind]_vars

(***************************************************************************)
(* C32: Data::bind(bindFunc, where, what) invokes the native bind function *)
(* if and only if the cache has no entry for `where' or the entry differs  *)
(* from `what'; afterwards the entry for `where' is `what' and every other *)
(* entry is unchanged.                                                     *)
(***************************************************************************)
C32_BindOnlyOnChange ==
    [][ glxLast'.op = "bind" =>
          LET where == glxLast'.where
              what == glxLast'.what
              cached == where \in DOMAIN glx /\ glx[where] = what
          IN /\ ~cached =>
                  glxLast'.calls = <<glCall(glxLast'.bindFunc, <<where, what>>)>>
             /\ cached => glxLast'.calls = <<>>
             /\ DOMAIN glx' = DOMAIN glx \cup {where}
             /\ glx'[where] = what
             /\ \A k \in DOMAIN glx \ {where} : glx'[k] = glx[k]
      ]_vars

\* A first bind of name 0 to a target without an entry reached the driver,
\* and a repeated bind of another target did not.
C32_Witness ==
    /\ glxLast.op = "bind" /\ glxLast.calls = <<>>
    /\ glxLast.where = "GL_TEXTURE_2D" /\ glxLast.what = 2
    /\ DOMAIN glx = {"GL_TEXTURE_2D", "GL_ARRAY_BUFFER"}
    /\ glx["GL_ARRAY_BUFFER"] = 0
    /\ driver["GL_TEXTURE_2D"] = 2

(***************************************************************************)
(* The draw framebuffer: the context's cached binding (ctx.bound) and the  *)
(* binding the driver holds, over render passes, presents and resizes      *)
(***************************************************************************)

\* The largest framebuffer name glGenFramebuffers hands out here.
MaxFboName == 3

FboNames == 1..MaxFboName

PassTargets == {"F1", "F2"}

\* glxBeginRenderPass(ctx, framebuffer) with the driver behind it: the
\* bind is issued when the cached draw framebuffer differs, then glClear.
beginRenderPass(s, framebuffer) ==
    LET a == IF s.ctx.bound.draw # framebuffer
             THEN issue(s, "glBindFramebuffer",
                        <<"GL_DRAW_FRAMEBUFFER", framebuffer>>,
                        "draw", framebuffer)
             ELSE s
    IN [a EXCEPT !.ctx = glxBeginRenderPass(s.ctx, framebuffer),
                 !.calls = Append(@, glCall("glClear", <<>>))]

\* The copy at the end of present: glBlitNamedFramebuffer takes the two
\* framebuffers by name and binds nothing; the arguments are written into
\* the cache on the way.
blitToBackbuffer(s, index) ==
    [s EXCEPT !.ctx.bound = [read |-> index, draw |-> 0],
              !.calls = Append(@, glCall("glBlitNamedFramebuffer",
                                         <<index, 0>>))]

\* glDeleteFramebuffers(1, &index): a deleted framebuffer that is bound
\* leaves the default framebuffer bound in its place.
deleteFramebuffer(drv, index) ==
    [drv EXCEPT !.names = @ \ {index},
                !.draw = IF @ = index THEN 0 ELSE @,
                !.read = IF @ = index THEN 0 ELSE @]

\* Framebuffer::onResize as far as the framebuffer object goes: the old
\* one is deleted; unless the new size is zero (name = 0) a new one is
\* generated and bound to GL_FRAMEBUFFER, the draw and the read target.
\* The context's cache is not involved.
resizeFramebuffer(s, index, name) ==
    LET d1 == IF index # 0 THEN deleteFramebuffer(s.driver, index)
              ELSE s.driver
        c1 == IF index # 0
              THEN Append(s.calls, glCall("glDeleteFramebuffers", <<index>>))
              ELSE s.calls
    IN IF name = 0 THEN [s EXCEPT !.driver = d1, !.calls = c1]
       ELSE [s EXCEPT !.driver = [d1 EXCEPT !.names = @ \cup {name},
                                            !.draw = name, !.read = name],
                      !.calls = c1 \o <<glCall("glGenFramebuffers", <<name>>),
                                        glCall("glBindFramebuffer",
                                               <<"GL_FRAMEBUFFER", name>>)>>]

\* glx.bound is the context's cache, glx.index the data->index of the
\* framebuffers that render on the context.
PassState == [driver |-> driver, ctx |-> [bound |-> glx.bound], calls |-> <<>>]

\* A render pass begins on framebuffer f.
BeginRenderPass(f) ==
    /\ ~fatal /\ glx.index[f] # 0
    /\ LET r == beginRenderPass(PassState, glx.index[f])
       IN /\ glx' = [glx EXCEPT !.bound = r.ctx.bound]
          /\ driver' = r.driver
          /\ glxLast' = [op |-> "beginRenderPass", framebuffer |-> f,
                         calls |-> r.calls]
    /\ UNCHANGED <<fatal, otherThanGlx>>

\* present(f, swapchain, {}) copies the intermediate f to the backbuffer.
PresentCopy(f) ==
    /\ ~fatal /\ glx.index[f] # 0
    /\ LET r == blitToBackbuffer(PassState, glx.index[f])
       IN /\ glx' = [glx EXCEPT !.bound = r.ctx.bound]
          /\ driver' = r.driver
          /\ glxLast' = [op |-> "present", framebuffer |-> f,
                         calls |-> r.calls]
    /\ UNCHANGED <<fatal, otherThanGlx>>

\* Framebuffer f is resized; name is the name glGenFramebuffers returns,
\* any name not in use, or 0 for a resize to size zero.
ResizeFramebuffer(f, name) ==
    /\ ~fatal
    /\ name # 0 \/ glx.index[f] # 0
    /\ name \notin driver.names \ {glx.index[f]}
    /\ LET r == resizeFramebuffer(PassState, glx.index[f], name)
       IN /\ glx' = [glx EXCEPT !.index[f] = name]
          /\ driver' = r.driver
          /\ glxLast' = [op |-> "onResize", framebuffer |-> f,
                         calls |-> r.calls]
    /\ UNCHANGED <<fatal, otherThanGlx>>

\* A new context, nothing bound, and two framebuffers not yet sized.
InitPass ==
    /\ fatal = FALSE
    /\ FbIdle
    /\ PbIdle
    /\ CtxIdle
    /\ ctorIn = NoCtor /\ ctorOut = NoCtor
    /\ glx = [index |-> [f \in PassTargets |-> 0],
              bound |-> [read |-> 0, draw |-> 0]]
    /\ driver = [read |-> 0, draw |-> 0, names |-> {}]
    /\ glxLast = NoGlx

NextPass ==
    \/ \E f \in PassTargets : BeginRenderPass(f)
    \/ \E f \in PassTargets : PresentCopy(f)
    \/ \E f \in PassTargets, name \in {0} \cup FboNames :
          ResizeFramebuffer(f, name)

SpecPass == InitPass /\ [][NextPass]_vars

(***************************************************************************)
(* C33: after any sequence of render-pass begins, presents and framebuffer *)
(* resizes the cached draw-framebuffer binding is the framebuffer the      *)
(* driver has bound, so that a render pass that begins on a framebuffer    *)
(* has that framebuffer bound for drawing.                                 *)
(***************************************************************************)
C33_CachedDrawIsBound ==
    [][ glxLast'.op \in {"beginRenderPass", "present", "onResize"} =>
          /\ glx'.bound.draw = driver'.draw
          /\ glxLast'.op = "beginRenderPass"
               => driver'.draw = glx'.index[glxLast'.framebuffer]
      ]_vars

\* The consequence of C33 alone: a render pass that begins on a framebuffer
\* has it bound for drawing, no needed bind was skipped.
C33_PassDrawsToItsFramebuffer ==
    [][ glxLast'.op = "beginRenderPass"
          => driver'.draw = glx'.index[glxLast'.framebuffer] ]_vars

(***************************************************************************)
(* The vertex arrays of a context: cached on first bind, deleted by the    *)
(* deferred drain or at context teardown. A PrimitiveBuffer is the key of  *)
(* the cache by its address, which a later PrimitiveBuffer may get again.  *)
(***************************************************************************)

\* Entries of one deferred-deletion queue in a run.
MaxQueued == 3

\* The names updateContext passes to glDeleteVertexArrays, in order:
\* context.vaos[del], which is 0 (a fresh entry) once an earlier round of
\* the loop erased the entry of the same PrimitiveBuffer.
drainDeletes(ctx) ==
    [i \in 1..Len(ctx.deletedVaos) |->
       IF \E j \in 1..(i - 1) : ctx.deletedVaos[j] = ctx.deletedVaos[i]
       THEN 0
       ELSE ctx.vaos[ctx.deletedVaos[i]]]

\* The names destroyContext passes to glDeleteVertexArrays: every entry of
\* the cache.
teardownDeletes(ctx) == vaoNames(ctx)

\* glDeleteVertexArrays(1, &name) on the vertex arrays d of one native
\* context: 0 is ignored, a live name is deleted; `stale' records a
\* deletion of a name that is not a live vertex array.
deleteVertexArray(d, name) ==
    IF name = 0 THEN d
    ELSE IF name \in d.live THEN [d EXCEPT !.live = @ \ {name}]
    ELSE [d EXCEPT !.stale = TRUE]

RECURSIVE deleteVertexArrays(_, _)
deleteVertexArrays(d, names) ==
    IF names = <<>> THEN d
    ELSE deleteVertexArrays(deleteVertexArray(d, Head(names)), Tail(names))

VaoCommandLists ==
    {<<>>} \cup {<<[op |-> "BindPrimitiveBuffer", obj |-> pb]>> :
                   pb \in PrimitiveBufferObjs}

\* A PrimitiveBuffer is constructed, at an address no live one has.
VaoCreate(pb) ==
    /\ ~fatal /\ pb \notin glx.alive
    /\ glx' = [glx EXCEPT !.alive = @ \cup {pb}]
    /\ glxLast' = [op |-> "create", thread |-> 0, deletes |-> <<>>,
                   afterDrain |-> FirstCmd(FALSE, NewContext)]
    /\ UNCHANGED <<fatal, driver, otherThanGlx>>

\* A PrimitiveBuffer is destroyed: onAddOrErase(pb, true).
VaoDestroy(pb) ==
    /\ ~fatal /\ pb \in glx.alive
    /\ \A t \in Threads : Len(glx.contexts[t].deletedVaos) < MaxQueued
    /\ glx' = [glx EXCEPT !.alive = @ \ {pb},
                          !.contexts = onErase(@, pb)]
    /\ glxLast' = [op |-> "destroy", thread |-> 0, deletes |-> <<>>,
                   afterDrain |-> FirstCmd(FALSE, NewContext)]
    /\ UNCHANGED <<fatal, driver, otherThanGlx>>

\* Thread t calls g.execute(cmds): the drain, then the binds, each of
\* which generates the vertex array on its first use in the context.
VaoExecute(t, cmds) ==
    /\ ~fatal
    /\ \A i \in 1..Len(cmds) : cmds[i].obj \in glx.alive
    /\ LET ctx == getContext(glx.contexts, t)
           e == execute(ctx, cmds)
           deletes == drainDeletes(ctx)
           d1 == deleteVertexArrays(driver[t], deletes)
           generated == vaoNames(e.ctx) \ vaoNames(updateContext(ctx))
       IN /\ glx' = [glx EXCEPT !.contexts[t] = e.ctx]
          /\ driver' = [driver EXCEPT
                          ![t] = [d1 EXCEPT !.live = @ \cup generated]]
          /\ glxLast' = [op |-> "execute", thread |-> t,
                         deletes |-> deletes,
                         afterDrain |-> FirstCmd(TRUE, updateContext(ctx))]
    /\ UNCHANGED <<fatal, otherThanGlx>>

\* Thread t tears its context down: Graphics::Data::destroyContext.
VaoDestroyContext(t) ==
    /\ ~fatal /\ glx.contexts[t].live
    /\ LET names == teardownDeletes(glx.contexts[t])
       IN /\ driver' = [driver EXCEPT
                          ![t] = [live |-> @.live \ names,
                                  stale |-> @.stale \/ ~(names \subseteq @.live)]]
          /\ glxLast' = [op |-> "destroyContext", thread |-> t,
                         deletes |-> <<>>,
                         afterDrain |-> FirstCmd(FALSE, NewContext)]
    /\ glx' = [glx EXCEPT !.contexts[t] = NoContext]
    /\ UNCHANGED <<fatal, otherThanGlx>>

InitVao ==
    /\ fatal = FALSE
    /\ FbIdle
    /\ PbIdle
    /\ CtxIdle
    /\ ctorIn = NoCtor /\ ctorOut = NoCtor
    /\ glx = [contexts |-> [t \in Threads |-> NoContext], alive |-> {}]
    /\ driver = [t \in Threads |-> [live |-> {}, stale |-> FALSE]]
    /\ glxLast = NoGlx

NextVao ==
    \/ \E pb \in PrimitiveBufferObjs : VaoCreate(pb)
    \/ \E pb \in PrimitiveBufferObjs : VaoDestroy(pb)
    \/ \E t \in Threads, cmds \in VaoCommandLists : VaoExecute(t, cmds)
    \/ \E t \in Threads : VaoDestroyContext(t)

SpecVao == InitVao /\ [][NextVao]_vars

(***************************************************************************)
(* C35: every vertex array cached in a context is deleted exactly once,    *)
(* by the deferred drain after its PrimitiveBuffer was destroyed or at     *)
(* context teardown, never by both and never while its PrimitiveBuffer is  *)
(* alive and the context exists; after a drain the queue is empty and the  *)
(* cache has no entry for a drained PrimitiveBuffer.                       *)
(***************************************************************************)
C35_VaoDeletedOnce ==
    [][ glxLast'.op \in {"create", "destroy", "execute", "destroyContext"} =>
          \A t \in Threads :
            LET ctx == glx.contexts[t]
                ctx1 == glx'.contexts[t]
                queued == SeqToSet(ctx.deletedVaos)
                here == glxLast'.thread = t
            IN /\ ~driver'[t].stale
               /\ driver'[t].live = vaoNames(ctx1)
               /\ \A n \in driver[t].live \ driver'[t].live :
                    \/ /\ glxLast'.op = "destroyContext" /\ here
                       /\ ~ctx1.live /\ n \in vaoNames(ctx)
                    \/ /\ glxLast'.op = "execute" /\ here
                       /\ \E pb \in queued : ctx.vaos[pb] = n
                       /\ Cardinality({i \in 1..Len(glxLast'.deletes) :
                                         glxLast'.deletes[i] = n}) = 1
               /\ \A pb \in PrimitiveBufferObjs :
                    (pb \in glx.alive /\ pb \notin queued /\ ctx.vaos[pb] # 0)
                      => \/ ctx1.vaos[pb] = ctx.vaos[pb]
                         \/ glxLast'.op = "destroyContext" /\ here
               /\ (glxLast'.op = "execute" /\ here) =>
                    /\ glxLast'.afterDrain.deletedVaos = <<>>
                    /\ ctx1.deletedVaos = <<>>
                    /\ \A pb \in queued : glxLast'.afterDrain.vaos[pb] = 0
      ]_vars

\* An execute drained a queue that named the same address twice (the
\* PrimitiveBuffer was destroyed, constructed again and destroyed again):
\* the one vertex array was deleted once, and the other context, torn
\* down earlier, had deleted its own.
C35_Witness ==
    /\ glxLast.op = "execute" /\ glxLast.thread = 1
    /\ glxLast.deletes = <<1, 0>>
    /\ driver[1].live = {} /\ ~driver[1].stale
    /\ glx.contexts[1].live /\ glx.contexts[1].vaos["PB1"] = 0
    /\ ~glx.contexts[2].live /\ driver[2].live = {}

=============================================================================
